---------------------------- MODULE Spec2Model ----------------------------
(***************************************************************************)
(* A model of the scraping engine of the movie bot (src/scraper.py) and of *)
(* the fan-out of its front-end (src/bot.py).                              *)
(*                                                                         *)
(* Strings are sequences of tokens: "https://popads.net/lp" is             *)
(* <<"https://", "popads.net", "/lp">>.  Python's `in`, startswith and     *)
(* endswith are computed on the token sequences.  None and the empty       *)
(* string are both <<>> (both are falsy where the code tests them); a      *)
(* local that holds no object (None, or never assigned) is 0.              *)
(***************************************************************************)
EXTENDS Integers, Sequences, FiniteSets, TLC

VARIABLES
    drivers,    \* the Playwright driver processes started so far, by handle: "started" | "stopped"
    sessions,   \* the browsers launched so far, by handle, each with its context and page
    task,       \* the locals and the position of each running scraper operation
    dom,        \* the server elements of the page behind the download trigger URL
    harness,    \* a bare caller: its variables and its last call of close_playwright_resources
    handler,    \* the locals and the position of handle_movie_name_input
    route,      \* the request that block_ads_route is called with, and what it did
    popup,      \* the pages the context reported to handle_popup, and what it did
    user_search_data,  \* data_manager: chat_id -> [timestamp, data]
    now,        \* time.time(), in seconds
    update      \* the update the bot is handling, and the last call on the store

\* the variables of the bot's store and of the popup listener
bot == <<popup, user_search_data, now, update>>

vars == <<drivers, sessions, task, dom, harness, handler, route, bot>>

------------------------------------------------------------------------------
(* Strings                                                                  *)

\* Python: sub in s
Contains(s, sub) ==
    \E i \in 1..(Len(s) - Len(sub) + 1) : SubSeq(s, i, i + Len(sub) - 1) = sub

\* Python: s.startswith(p)
StartsWith(s, p) == Len(p) <= Len(s) /\ SubSeq(s, 1, Len(p)) = p

\* Python: s.endswith(e)
EndsWith(s, e) == Len(e) <= Len(s) /\ SubSeq(s, Len(s) - Len(e) + 1, Len(s)) = e

\* Python: any(pattern in url for pattern in patterns)
ContainsAny(url, patterns) == \E i \in 1..Len(patterns) : Contains(url, patterns[i])

------------------------------------------------------------------------------
(* The browser world: get_playwright_page and close_playwright_resources    *)

\* the awaits of get_playwright_page, in order; "none": none of them raises
AcquireSteps == <<"start", "launch", "new_context", "route", "new_page", "none">>

StepIndex(step) == CHOOSE i \in 1..Len(AcquireSteps) : AcquireSteps[i] = step

NewSession(pw) ==
    [pw |-> pw, browser |-> "open", context |-> "none", page |-> "none",
     routed |-> FALSE, listening |-> FALSE]

\* get_playwright_page with context.new_page() moved before context.route and
\* context.on: the fourth await creates the page, the fifth installs
get_playwright_page_PageFirst(ds, ss, instance, failAt, h) ==
    LET k   == StepIndex(failAt)
        pw  == IF instance = 0 THEN h ELSE instance
        ds1 == IF instance = 0 /\ k > 1 THEN ds @@ (h :> "started") ELSE ds
        s0  == NewSession(pw)
        s1  == IF k > 3 THEN [s0 EXCEPT !.context = "open"] ELSE s0
        s2  == IF k > 4 THEN [s1 EXCEPT !.page = "open"] ELSE s1
        s3  == IF k > 5 THEN [s2 EXCEPT !.routed = TRUE, !.listening = TRUE] ELSE s2
        ss1 == IF k > 2 THEN ss @@ (h :> s3) ELSE ss
    IN  [drivers |-> ds1, sessions |-> ss1, ok |-> (failAt = "none"),
         pw |-> IF failAt = "none" THEN pw ELSE 0,
         id |-> IF failAt = "none" THEN h ELSE 0]

\* get_playwright_page(playwright_instance = instance), whose await `failAt`
\* raises; h is the handle of the objects it creates (0 is None).
\* The result: the world after the call, whether it returned (ok) and what it
\* returned (the driver and the session that holds browser, context and page).
\* Nothing that was created before the failing await is undone.
get_playwright_page(ds, ss, instance, failAt, h) ==
    LET k   == StepIndex(failAt)
        pw  == IF instance = 0 THEN h ELSE instance
        ds1 == IF instance = 0 /\ k > 1 THEN ds @@ (h :> "started") ELSE ds
        s0  == NewSession(pw)
        s1  == IF k > 3 THEN [s0 EXCEPT !.context = "open"] ELSE s0
        s2  == IF k > 4 THEN [s1 EXCEPT !.routed = TRUE, !.listening = TRUE] ELSE s1
        s3  == IF k > 5 THEN [s2 EXCEPT !.page = "open"] ELSE s2
        ss1 == IF k > 2 THEN ss @@ (h :> s3) ELSE ss
    IN  [drivers |-> ds1, sessions |-> ss1, ok |-> (failAt = "none"),
         pw |-> IF failAt = "none" THEN pw ELSE 0,
         id |-> IF failAt = "none" THEN h ELSE 0]

\* context.close(): the context and its page are closed afterwards
CloseContext(s) ==
    [s EXCEPT !.context = IF @ = "none" THEN "none" ELSE "closed",
              !.page    = IF @ = "none" THEN "none" ELSE "closed"]

\* browser.close(): the browser, its context and its page are closed afterwards
CloseBrowser(s) == [CloseContext(s) EXCEPT !.browser = "closed"]

\* close_playwright_resources without the try/except around browser.close()
close_playwright_resources_unguarded(ss, b, c, ctxFails, brFails) ==
    LET ctxRaises == c # 0 /\ (ctxFails \/ ss[c].context # "open")
        ss1       == IF c # 0 THEN [ss EXCEPT ![c] = CloseContext(@)] ELSE ss
        brRaises  == b # 0 /\ (brFails \/ ss1[b].browser # "open")
        ss2       == IF b # 0 THEN [ss1 EXCEPT ![b] = CloseBrowser(@)] ELSE ss1
    IN  [sessions |-> ss2, raised |-> brRaises,
         logged |-> (IF ctxRaises THEN 1 ELSE 0)]

\* close_playwright_resources(browser, context): b and c are the sessions that
\* hold the browser and the context (0: None).  A close raises when its
\* target is closed already, or when the environment makes it fail
\* (ctxFails, brFails); the target is gone afterwards either way.  Both
\* exceptions are logged and swallowed.
close_playwright_resources(ss, b, c, ctxFails, brFails) ==
    LET ctxRaises == c # 0 /\ (ctxFails \/ ss[c].context # "open")
        ss1       == IF c # 0 THEN [ss EXCEPT ![c] = CloseContext(@)] ELSE ss
        brRaises  == b # 0 /\ (brFails \/ ss1[b].browser # "open")
        ss2       == IF b # 0 THEN [ss1 EXCEPT ![b] = CloseBrowser(@)] ELSE ss1
    IN  [sessions |-> ss2, raised |-> FALSE,
         logged |-> (IF ctxRaises THEN 1 ELSE 0) + (IF brRaises THEN 1 ELSE 0)]

\* playwright.stop()
StopDriver(ds, pw) == [ds EXCEPT ![pw] = "stopped"]

OpenBrowsers == {i \in DOMAIN sessions : sessions[i].browser = "open"}

------------------------------------------------------------------------------
(* The inputs of the operations                                             *)

\* the two sites get_movie_source_websites returns, and a site it does not
AlphaSite == <<"https://", "dummy-movie-site", "-alpha", ".com">>
BetaSite  == <<"https://", "dummy-movie-site", "-beta", ".com">>
OtherSite == <<"https://", "cinema-hub", ".net">>

Sites == {AlphaSite, BetaSite, OtherSite}

VGLIST_URL == <<"https://", "vglist.nl", "/">>

\* the user's query (movie_name)
MovieName == <<"Inception", " ", "2">>

\* Python: s.replace(a, b), token by token
Replace(s, a, b) == [i \in 1..Len(s) |-> IF s[i] = a THEN b ELSE s[i]]

\* Python: s.lower()
LowerToken(c) ==
    CASE c = "Inception" -> "inception"
      [] c = "VCloud"    -> "vcloud"
      [] OTHER           -> c

Lower(s) == [i \in 1..Len(s) |-> LowerToken(s[i])]

\* the URLs a search can end on: the site itself, a page of the site, an ad
\* page of an unrelated origin, an ad page that carries the site URL in its
\* query, and a host that merely begins like the site
PathTokens == {"/", "/search", "/lp", "/?ref="}

LandingUrls(site_url) ==
    { site_url,
      site_url \o <<"/search">>,
      <<"https://", "popads.net", "/lp">>,
      <<"https://", "popads.net", "/?ref=">> \o site_url,
      site_url \o <<".evil.net", "/lp">> }

\* scheme and host of a URL: its tokens before the first path token
RECURSIVE OriginLen(_)
OriginLen(url) ==
    IF url = <<>> \/ Head(url) \in PathTokens THEN 0 ELSE 1 + OriginLen(Tail(url))

Origin(url) == SubSeq(url, 1, OriginLen(url))

max_retries == 1

------------------------------------------------------------------------------
(* The locals of one call of a scraper operation                            *)

Ops == {"sources", "search", "options", "final"}

NoFocus == [on |-> "none", url |-> <<>>, video_src |-> <<>>, download_href |-> <<>>]

\* op, pc: the operation and its position.  site: site_url or source_site.
\* url: vglist_url, detail_page_url or download_trigger_url.  playwright,
\* browser, context: the driver and the sessions the locals refer to.
\* results: source_sites, results or options.  tier, ident: the position in
\* server_priority.  page_url: page.url.  elem, href, focus: the element,
\* its attribute and the page that the current identifier is looking at.  ret, raised: what the caller gets.
\* History, read by the properties only: excs (the kinds of exception that
\* occurred; "fault" marks a failure of the browser in one identifier's
\* attempt, "release" a close that failed in the release before the return), failed (attempts ended by an exception), landed (the URL
\* each attempt ended on), landedAt (the numbers of those attempts), scraped (what each attempt scraped), tried (the
\* identifiers examined), foundBy (the tier, the identifier and the link of
\* the assignment to final_link), led (the media link that a click showed).
IdleTask ==
    [op |-> "idle", pc |-> "idle", site |-> <<>>, url |-> <<>>,
     attempt |-> 0, playwright |-> 0, browser |-> 0, context |-> 0,
     results |-> <<>>, final_link |-> <<>>, tier |-> 1, ident |-> 1,
     page_url |-> <<>>, elem |-> 0, href |-> <<>>, focus |-> NoFocus,
     ret |-> <<>>, raised |-> FALSE,
     excs |-> {}, failed |-> 0, landed |-> <<>>, landedAt |-> <<>>, scraped |-> <<>>,
     tried |-> <<>>, foundBy |-> <<>>, led |-> <<>>]

StartTask(op, site, url) ==
    [IdleTask EXCEPT !.op = op, !.pc = "acquire", !.site = site, !.url = url]

TaskIds == {1, 2, 3}

\* the call that runs as task t has returned (or raised)
Done(t) == task[t].pc = "done"

\* an exception of kind `kind` takes the task to its handler at `handlerPc`
Raise(tk, kind, handlerPc) ==
    [tk EXCEPT !.pc = handlerPc, !.excs = @ \cup {kind}, !.failed = @ + 1]

\* the handle of the objects that attempt `attempt` of task t creates
Handle(t, attempt) == (t - 1) * (max_retries + 1) + attempt + 1

\* `playwright, browser, context, page = await get_playwright_page(...)`:
\* the locals are assigned only when the call returns
AcquireStep(t, okPc, handlerPc) ==
    \E failAt \in {AcquireSteps[i] : i \in 1..Len(AcquireSteps)} :
        LET r == get_playwright_page(drivers, sessions, task[t].playwright, failAt,
                                     Handle(t, task[t].attempt)) IN
        /\ failAt = "start" => task[t].playwright = 0
        /\ drivers' = r.drivers
        /\ sessions' = r.sessions
        /\ task' = [task EXCEPT ![t] =
                IF r.ok
                THEN [@ EXCEPT !.pc = okPc, !.playwright = r.pw,
                               !.browser = r.id, !.context = r.id]
                ELSE Raise(@, "acquire", handlerPc)]
        /\ UNCHANGED <<dom, harness, handler, route, bot>>

\* `if browser: await close_playwright_resources(browser, context, ...)`
\* followed by `if playwright and not browser: await playwright.stop()` and
\* the return of `value`; a cancellation that brought the call into its
\* finally block goes on to the caller instead of the return
ReleaseAndReturn(t, value) ==
    \E ctxFails \in BOOLEAN, brFails \in BOOLEAN :
        LET tk == task[t]
            r  == IF tk.browser # 0
                  THEN close_playwright_resources(sessions, tk.browser, tk.context,
                                                  ctxFails, brFails)
                  ELSE [sessions |-> sessions, raised |-> FALSE, logged |-> 0]
            stops == ~r.raised /\ tk.playwright # 0 /\ tk.browser = 0
        IN
        /\ tk.browser = 0 => ~ctxFails /\ ~brFails
        /\ sessions' = r.sessions
        /\ drivers' = IF stops THEN StopDriver(drivers, tk.playwright) ELSE drivers
        /\ task' = [task EXCEPT ![t] =
                [@ EXCEPT !.pc = "done",
                          !.raised = r.raised \/ "cancelled" \in tk.excs,
                          !.ret = IF r.raised \/ "cancelled" \in tk.excs
                                  THEN <<>> ELSE value,
                          !.excs = IF r.logged > 0 THEN @ \cup {"release"} ELSE @]]
        /\ UNCHANGED <<dom, harness, handler, route, bot>>

------------------------------------------------------------------------------
(* get_movie_source_websites                                                *)

\* the placeholder list of the source
DummySourceSites == <<AlphaSite, BetaSite>>

\* the assignment of a list that is kept between the calls and extended
SourcesScrape_Accumulating(t) ==
    /\ task[t].op = "sources" /\ task[t].pc = "scrape"
    /\ LET earlier == IF t > 1 THEN task[t - 1].ret ELSE <<>> IN
       task' = [task EXCEPT ![t].results = earlier \o DummySourceSites,
                            ![t].pc = "finally"]
    /\ UNCHANGED <<drivers, sessions, dom, harness, handler, route, bot>>

SourcesAcquire(t) ==
    /\ task[t].op = "sources" /\ task[t].pc = "acquire"
    /\ AcquireStep(t, "scrape", "finally")

\* asyncio.sleep(0.1), then the assignment of source_sites
SourcesScrape(t) ==
    /\ task[t].op = "sources" /\ task[t].pc = "scrape"
    /\ task' = [task EXCEPT ![t].results = DummySourceSites, ![t].pc = "finally"]
    /\ UNCHANGED <<drivers, sessions, dom, harness, handler, route, bot>>

SourcesFinally(t) ==
    /\ task[t].op = "sources" /\ task[t].pc = "finally"
    /\ ReleaseAndReturn(t, task[t].results)

------------------------------------------------------------------------------
(* get_movie_download_options                                               *)

DummyOptions(detail_page_url, source_site) ==
    IF Contains(source_site, <<"dummy-movie-site", "-alpha">>)
    THEN << [quality |-> "720p", language |-> "English",
             download_trigger_url |-> detail_page_url \o <<"/download?q=720&l=eng">>],
            [quality |-> "1080p", language |-> "Dual Audio",
             download_trigger_url |-> detail_page_url \o <<"/download?q=1080&l=dual">>] >>
    ELSE IF Contains(source_site, <<"dummy-movie-site", "-beta">>)
    THEN << [quality |-> "1080p", language |-> "English",
             download_trigger_url |-> detail_page_url \o <<"/getlink?res=1080p">>] >>
    ELSE <<>>

OptionsAcquire(t) ==
    /\ task[t].op = "options" /\ task[t].pc = "acquire"
    /\ AcquireStep(t, "goto", "finally")

\* page.goto and page.wait_for_timeout, then the assignment of options
OptionsGoto(t) ==
    /\ task[t].op = "options" /\ task[t].pc = "goto"
    /\ \E ok \in BOOLEAN :
         LET tk == task[t] IN
         task' = [task EXCEPT ![t] =
             IF ok
             THEN [tk EXCEPT !.results = DummyOptions(tk.url, tk.site), !.pc = "finally"]
             ELSE Raise(tk, "navigation", "finally")]
    /\ UNCHANGED <<drivers, sessions, dom, harness, handler, route, bot>>

OptionsFinally(t) ==
    /\ task[t].op = "options" /\ task[t].pc = "finally"
    /\ ReleaseAndReturn(t, task[t].results)

------------------------------------------------------------------------------
(* search_movie_on_site                                                     *)

DummyResults(site_url, movie_name) ==
    IF Contains(site_url, <<"dummy-movie-site", "-alpha">>)
    THEN << [title |-> movie_name \o <<" - Result 1 (Alpha Site)">>,
             poster_url |-> <<"https://", "via.placeholder.com", "/150x220.png?text=">>
                            \o Replace(movie_name, " ", "+") \o <<"+1">>,
             detail_page_url |-> site_url \o <<"/movie/">>
                            \o Lower(Replace(movie_name, " ", "-")) \o <<"-details-1">>,
             source_site |-> site_url] >>
    ELSE IF Contains(site_url, <<"dummy-movie-site", "-beta">>)
    THEN << [title |-> movie_name \o <<" - Result (Beta Site)">>,
             poster_url |-> <<"https://", "via.placeholder.com", "/150x220.png?text=">>
                            \o Replace(movie_name, " ", "+") \o <<"+Beta">>,
             detail_page_url |-> site_url \o <<"/view/">>
                            \o Lower(Replace(movie_name, " ", "_")),
             source_site |-> site_url] >>
    ELSE <<>>

\* the ad-redirect test without `attempt < max_retries`
IsAdRedirect_NoLimit(site_url, current_url, attempt) ==
    /\ ~Contains(current_url, site_url)
    /\ ~StartsWith(current_url, site_url)

\* the ad-redirect test of the source
IsAdRedirect(site_url, current_url, attempt) ==
    /\ ~Contains(current_url, site_url)
    /\ ~StartsWith(current_url, site_url)
    /\ attempt < max_retries

\* the retry without the close: the locals are reset and the browser stays
DiscardSession_NoClose(t, tk) ==
    /\ sessions' = sessions
    /\ task' = [task EXCEPT ![t] =
            [tk EXCEPT !.pc = "acquire", !.attempt = @ + 1,
                       !.browser = 0, !.playwright = 0]]

\* the session of the attempt is closed and forgotten before the next attempt:
\* close_playwright_resources, browser = None, playwright = None, sleep
DiscardSession(t, tk) ==
    \E ctxFails \in BOOLEAN, brFails \in BOOLEAN :
        LET r == IF tk.browser # 0
                 THEN close_playwright_resources(sessions, tk.browser, tk.context,
                                                 ctxFails, brFails)
                 ELSE [sessions |-> sessions, raised |-> FALSE, logged |-> 0]
        IN
        /\ tk.browser = 0 => ~ctxFails /\ ~brFails
        /\ sessions' = r.sessions
        /\ task' = [task EXCEPT ![t] =
                IF r.raised
                THEN [tk EXCEPT !.pc = "done", !.raised = TRUE]
                ELSE [tk EXCEPT !.pc = "acquire", !.attempt = @ + 1,
                                !.browser = 0, !.playwright = 0]]

SearchAcquire(t) ==
    /\ task[t].op = "search" /\ task[t].pc = "acquire"
    /\ AcquireStep(t, "goto", "after")

\* page.goto(site_url) and the settle delay
SearchGoto(t) ==
    /\ task[t].op = "search" /\ task[t].pc = "goto"
    /\ \E ok \in BOOLEAN :
         task' = [task EXCEPT ![t] =
             IF ok THEN [@ EXCEPT !.pc = "fill"] ELSE Raise(@, "navigation", "after")]
    /\ UNCHANGED <<drivers, sessions, dom, harness, handler, route, bot>>

\* the search bar: the selector list, then every generic input; a failure
\* other than a timeout of the first fill is not retried
FillOutcomes == {"filled", "generic_filled", "not_found", "error"}

SearchFill(t) ==
    /\ task[t].op = "search" /\ task[t].pc = "fill"
    /\ \E outcome \in FillOutcomes :
         task' = [task EXCEPT ![t] =
             IF outcome \in {"filled", "generic_filled"}
             THEN [@ EXCEPT !.pc = "submit"]
             ELSE Raise(@, "interaction", "after")]
    /\ UNCHANGED <<drivers, sessions, dom, harness, handler, route, bot>>

\* the submit: Enter; if it raises, a click on a submit-like button, whose
\* timeout is passed over and whose other failures are not
SubmitOutcomes == {"enter", "click", "click_timeout", "click_error"}

SearchSubmit(t) ==
    /\ task[t].op = "search" /\ task[t].pc = "submit"
    /\ \E outcome \in SubmitOutcomes :
         task' = [task EXCEPT ![t] =
             IF outcome = "click_error"
             THEN Raise(@, "interaction", "after")
             ELSE [@ EXCEPT !.pc = "settle"]]
    /\ UNCHANGED <<drivers, sessions, dom, harness, handler, route, bot>>

\* page.wait_for_load_state and the dwell time
SearchSettle(t) ==
    /\ task[t].op = "search" /\ task[t].pc = "settle"
    /\ \E ok \in BOOLEAN :
         task' = [task EXCEPT ![t] =
             IF ok THEN [@ EXCEPT !.pc = "check"] ELSE Raise(@, "navigation", "after")]
    /\ UNCHANGED <<drivers, sessions, dom, harness, handler, route, bot>>

\* the redirect check on page.url: discard the session and retry, or go on
SearchCheck(t) ==
    /\ task[t].op = "search" /\ task[t].pc = "check"
    /\ \E current_url \in LandingUrls(task[t].site) :
         LET tk == [task[t] EXCEPT !.landed = Append(@, current_url),
                                   !.landedAt = Append(@, task[t].attempt)] IN
         IF IsAdRedirect(tk.site, current_url, tk.attempt)
         THEN DiscardSession(t, tk)
         ELSE /\ task' = [task EXCEPT ![t] = [tk EXCEPT !.pc = "scrape"]]
              /\ UNCHANGED sessions
    /\ UNCHANGED <<drivers, dom, harness, handler, route, bot>>

\* the scrape, and `if results: break`
SearchScrape(t) ==
    /\ task[t].op = "search" /\ task[t].pc = "scrape"
    /\ LET items == DummyResults(task[t].site, MovieName)
           found == task[t].results \o items
       IN
         task' = [task EXCEPT ![t].results = found,
                              ![t].scraped = Append(@, [attempt |-> task[t].attempt,
                                                        items |-> items]),
                              ![t].pc = IF found # <<>> THEN "finish" ELSE "after"]
    /\ UNCHANGED <<drivers, sessions, dom, harness, handler, route, bot>>

\* the retry that only an exception of the attempt triggers
SearchAfter_RetryOnErrorOnly(t) ==
    /\ task[t].op = "search" /\ task[t].pc = "after"
    /\ IF task[t].attempt < max_retries /\ task[t].results = <<>> /\ task[t].failed > 0
       THEN DiscardSession(t, task[t])
       ELSE /\ task' = [task EXCEPT ![t].pc = "finish"]
            /\ UNCHANGED sessions
    /\ UNCHANGED <<drivers, dom, harness, handler, route, bot>>

\* after the try: `if attempt < max_retries and not results` retry, else break
SearchAfter(t) ==
    /\ task[t].op = "search" /\ task[t].pc = "after"
    /\ IF task[t].attempt < max_retries /\ task[t].results = <<>>
       THEN DiscardSession(t, task[t])
       ELSE /\ task' = [task EXCEPT ![t].pc = "finish"]
            /\ UNCHANGED sessions
    /\ UNCHANGED <<drivers, dom, harness, handler, route, bot>>

\* after the loop: release and return
SearchFinish(t) ==
    /\ task[t].op = "search" /\ task[t].pc = "finish"
    /\ ReleaseAndReturn(t, task[t].results)

------------------------------------------------------------------------------
(* get_final_vcloud_download_link: the table, the page, the tests           *)

Lit(s) == [kind |-> "literal", s |-> s]
Pat(s) == [kind |-> "pattern", s |-> s]

\* server_priority.  Texts are in lower case: has-text and [class*=... i]
\* compare without case, and the patterns are compiled with re.I.  In a
\* pattern the token "\\s*" is the regular expression's \s*.
server_priority ==
    << [name |-> "Server One",
        identifiers |-> << Lit(<<"server", " ", "one">>),
                           Lit(<<"vcloud", " ", "server", " ", "1">>),
                           Lit(<<"server-one-button">>),
                           Pat(<<"server", "\\s*", "1">>) >>],
       [name |-> "FSL Server",
        identifiers |-> << Lit(<<"fsl", " ", "server">>),
                           Lit(<<"fast", " ", "server", " ", "link">>),
                           Lit(<<"fsl-server-link">>),
                           Pat(<<"fsl">>) >>],
       [name |-> "10 Gbps Server",
        identifiers |-> << Lit(<<"10", " ", "gbps", " ", "server">>),
                           Lit(<<"10", "gbps", " ", "speed">>),
                           Lit(<<"high-speed-server">>),
                           Pat(<<"10", "\\s*", "gbps">>) >>] >>

\* re.search(pat, text): a match of pat that starts at token i of text
RECURSIVE MatchAt(_, _, _)
MatchAt(pat, text, i) ==
    IF pat = <<>> THEN TRUE
    ELSE IF Head(pat) = "\\s*"
         THEN \/ MatchAt(Tail(pat), text, i)
              \/ i <= Len(text) /\ text[i] = " " /\ MatchAt(pat, text, i + 1)
         ELSE i <= Len(text) /\ text[i] = Head(pat) /\ MatchAt(Tail(pat), text, i + 1)

RegexSearch(pat, text) == \E i \in 1..(Len(text) + 1) : MatchAt(pat, text, i)

\* the locator of an identifier selects this element: a literal by its text,
\* class or id, a pattern by its text
Selects(identifier, el) ==
    IF identifier.kind = "literal"
    THEN Contains(el.text, identifier.s) \/ Contains(el.cls, identifier.s)
    ELSE RegexSearch(identifier.s, el.text)

MediaUrl(ext) == <<"https://", "files.host", "/movie", ext>>
GoogleVideoUrl == <<"https://", "r3.", "googlevideo.com/videoplayback", "?id=7">>
PlayerUrl == <<"https://", "files.host", "/player">>

\* the four direct-media tests of the source, one per extraction point
IsDirectHref(href) ==
    /\ href # <<>>
    /\ \/ \E ext \in {".mp4", ".mkv", ".avi", ".webm"} : EndsWith(href, <<ext>>)
       \/ Contains(href, <<"googlevideo.com/videoplayback">>)

\* extraction (a) without its test: the URL of the focused page is taken
IsDirectPageUrl_Untested(url) == url # <<>>

IsDirectPageUrl(url) ==
    \/ \E ext \in {".mp4", ".mkv", ".avi"} : EndsWith(url, <<ext>>)
    \/ Contains(url, <<"googlevideo.com/videoplayback">>)

IsDirectVideoSrc(src) ==
    /\ src # <<>>
    /\ \/ \E ext \in {".mp4", ".mkv"} : EndsWith(src, <<ext>>)
       \/ Contains(src, <<"googlevideo.com/videoplayback">>)

\* the download locator needs .mp4 or .mkv in the href of a link, or a button
IsDirectDownloadHref(href) ==
    /\ href # <<>>
    /\ \/ \E ext \in {".mp4", ".mkv"} : EndsWith(href, <<ext>>)
       \/ Contains(href, <<"googlevideo.com/videoplayback">>)

\* the elements a trigger page can hold for each tier: none, or one whose
\* text is the tier's first identifier, or one that only a later identifier
\* selects; with what it does: its href, and what a click on it causes
\* ("popup": a new page opens; "same": the page navigates; "none": nothing)
NoElem == [text |-> <<>>, cls |-> <<>>, href |-> <<>>, click |-> "absent"]

ElemLabels(tier) ==
    CASE tier = 1 -> { [text |-> <<"server", " ", "one">>, cls |-> <<"btn">>],
                       [text |-> <<"server", " ", "1">>, cls |-> <<"btn">>] }
      [] tier = 2 -> { [text |-> <<"fsl", " ", "server">>, cls |-> <<"btn">>],
                       [text |-> <<"mirror">>, cls |-> <<"fsl-server-link">>] }
      [] tier = 3 -> { [text |-> <<"10", " ", "gbps", " ", "server">>, cls |-> <<"btn">>],
                       [text |-> <<"10", "gbps">>, cls |-> <<"btn">>] }

ElemBehaviours ==
    { [href |-> MediaUrl(".mp4"), click |-> "none"],
      [href |-> <<"/go">>, click |-> "popup"],
      [href |-> <<>>, click |-> "same"] }

Elems(tier) ==
    {NoElem} \cup
    { [text |-> l.text, cls |-> l.cls, href |-> b.href, click |-> b.click] :
        l \in ElemLabels(tier), b \in ElemBehaviours }

\* what the page shown after a click holds
Targets ==
    { [url |-> MediaUrl(".mp4"), video_src |-> <<>>, download_href |-> <<>>],
      [url |-> MediaUrl(".webm"), video_src |-> <<>>, download_href |-> <<>>],
      [url |-> GoogleVideoUrl, video_src |-> <<>>, download_href |-> <<>>],
      [url |-> PlayerUrl, video_src |-> MediaUrl(".mkv"), download_href |-> <<>>],
      [url |-> PlayerUrl, video_src |-> <<>>, download_href |-> MediaUrl(".mp4")],
      [url |-> PlayerUrl, video_src |-> <<>>, download_href |-> <<>>] }

\* the link of a target page that is direct media by every one of the tests
TargetLink(tg) ==
    IF IsDirectVideoSrc(tg.url) THEN tg.url
    ELSE IF IsDirectVideoSrc(tg.video_src) THEN tg.video_src
    ELSE IF IsDirectVideoSrc(tg.download_href) THEN tg.download_href
    ELSE <<>>

TriggerPlain == AlphaSite \o <<"/movie/x", "/download?q=720&l=eng">>
TriggerVCloud == <<"https://", "VCloud", ".host", "/s/abc">>

\* the first element, in page order, that the identifier's locator selects
\* (tier order is page order); 0 if there is none
FirstSelected(identifier) ==
    LET hits == {i \in 1..Len(dom.elems) :
                    dom.elems[i] # NoElem /\ Selects(identifier, dom.elems[i])}
    IN  IF hits = {} THEN 0 ELSE CHOOSE i \in hits : \A j \in hits : i <= j

Identifier(tk) == server_priority[tk.tier].identifiers[tk.ident]

\* the end of one identifier's attempt: the breaks of the two loops
\* the same without `if final_link: break` after the inner loop: the next
\* tier is tried although a link was found
AfterIdentifier_NoOuterBreak(tk0) ==
    LET tk == [tk0 EXCEPT !.elem = 0, !.href = <<>>, !.focus = NoFocus] IN
    IF tk.final_link = <<>> /\ tk.ident < Len(server_priority[tk.tier].identifiers)
    THEN [tk EXCEPT !.pc = "locate", !.ident = @ + 1]
    ELSE IF tk.tier < Len(server_priority)
         THEN [tk EXCEPT !.pc = "locate", !.tier = @ + 1, !.ident = 1]
    ELSE [tk EXCEPT !.pc = "fallback"]

\* the same without the breaks of the inner loop: the identifiers left in
\* the tier are tried although a link was found
AfterIdentifier_NoInnerBreak(tk0) ==
    LET tk == [tk0 EXCEPT !.elem = 0, !.href = <<>>, !.focus = NoFocus] IN
    IF tk.ident < Len(server_priority[tk.tier].identifiers)
    THEN [tk EXCEPT !.pc = "locate", !.ident = @ + 1]
    ELSE IF tk.final_link = <<>> /\ tk.tier < Len(server_priority)
         THEN [tk EXCEPT !.pc = "locate", !.tier = @ + 1, !.ident = 1]
    ELSE [tk EXCEPT !.pc = "fallback"]

\* the iteration that has no exit when the identifiers are exhausted without
\* a link: it stays in the loop ("spin") and reaches no statement after it
AfterIdentifier_NoExit(tk0) ==
    LET tk == [tk0 EXCEPT !.elem = 0, !.href = <<>>, !.focus = NoFocus] IN
    IF tk.final_link # <<>> THEN [tk EXCEPT !.pc = "fallback"]
    ELSE IF tk.ident < Len(server_priority[tk.tier].identifiers)
         THEN [tk EXCEPT !.pc = "locate", !.ident = @ + 1]
    ELSE IF tk.tier < Len(server_priority)
         THEN [tk EXCEPT !.pc = "locate", !.tier = @ + 1, !.ident = 1]
    ELSE [tk EXCEPT !.pc = "spin"]

\* (the locals of the attempt are dead from here on and are cleared)
AfterIdentifier(tk0) ==
    LET tk == [tk0 EXCEPT !.elem = 0, !.href = <<>>, !.focus = NoFocus] IN
    IF tk.final_link # <<>> THEN [tk EXCEPT !.pc = "fallback"]
    ELSE IF tk.ident < Len(server_priority[tk.tier].identifiers)
         THEN [tk EXCEPT !.pc = "locate", !.ident = @ + 1]
    ELSE IF tk.tier < Len(server_priority)
         THEN [tk EXCEPT !.pc = "locate", !.tier = @ + 1, !.ident = 1]
    ELSE [tk EXCEPT !.pc = "fallback"]

\* an exception inside one identifier's attempt that is left to the outer
\* handlers of the call
IdentifierFails_EndsResolution(tk) ==
    [tk EXCEPT !.excs = @ \cup {"identifier"}, !.pc = "finally",
               !.elem = 0, !.href = <<>>, !.focus = NoFocus]

\* an exception inside one identifier's attempt: logged, next identifier
IdentifierFails(tk) ==
    AfterIdentifier([tk EXCEPT !.excs = @ \cup {"identifier"}])

\* the same, for a timeout or an error that the browser is made to produce
BrowserFault(tk) ==
    IdentifierFails([tk EXCEPT !.excs = @ \cup {"fault"}])

IsDummySite(source_site) ==
    Contains(source_site, <<"dummy-movie-site">>) \/ Contains(source_site, <<"example", ".com">>)

DummyLink(download_trigger_url) ==
    download_trigger_url \o <<"/final_vcloud_link_server1_dummy", ".mp4">>

------------------------------------------------------------------------------
(* get_final_vcloud_download_link: the steps                                *)

FinalAcquire(t) ==
    /\ task[t].op = "final" /\ task[t].pc = "acquire"
    /\ AcquireStep(t, "goto", "finally")

\* page.goto(download_trigger_url) and the dwell time
FinalGoto_FallsBack(t) ==
    /\ task[t].op = "final" /\ task[t].pc = "goto"
    /\ \E ok \in BOOLEAN :
         task' = [task EXCEPT ![t] =
             IF ok THEN [@ EXCEPT !.pc = "locate", !.page_url = task[t].url]
             ELSE Raise(@, "navigation", "fallback")]
    /\ UNCHANGED <<drivers, sessions, dom, harness, handler, route, bot>>

\* page.goto(download_trigger_url) and the wait after it: a failure leaves
\* the try block, past the loops and the placeholder, for the finally
FinalGoto(t) ==
    /\ task[t].op = "final" /\ task[t].pc = "goto"
    /\ \E ok \in BOOLEAN :
         task' = [task EXCEPT ![t] =
             IF ok THEN [@ EXCEPT !.pc = "locate", !.page_url = task[t].url]
             ELSE Raise(@, "navigation", "finally")]
    /\ UNCHANGED <<drivers, sessions, dom, harness, handler, route, bot>>

\* the locator of the identifier and is_visible: the server elements are
\* on the trigger page only, and a closed page raises
FinalLocate(t) ==
    /\ task[t].op = "final" /\ task[t].pc = "locate"
    /\ \E fault \in BOOLEAN :
         LET tk == [task[t] EXCEPT !.tried = Append(@, <<task[t].tier, task[t].ident>>)]
             i  == IF tk.page_url = tk.url THEN FirstSelected(Identifier(tk)) ELSE 0
         IN  task' = [task EXCEPT ![t] =
                 IF sessions[tk.browser].page # "open" THEN IdentifierFails(tk)
                 ELSE IF fault THEN BrowserFault(tk)
                 ELSE IF i = 0 THEN AfterIdentifier(tk)
                 ELSE [tk EXCEPT !.pc = "href", !.elem = i]]
    /\ UNCHANGED <<drivers, sessions, dom, harness, handler, route, bot>>

\* option A: the element's own href is the link
FinalHref(t) ==
    /\ task[t].op = "final" /\ task[t].pc = "href"
    /\ \E fault \in BOOLEAN :
         LET tk   == task[t]
             href == dom.elems[tk.elem].href
         IN  task' = [task EXCEPT ![t] =
                 IF fault THEN BrowserFault(tk)
                 ELSE IF IsDirectHref(href)
                 THEN AfterIdentifier([tk EXCEPT !.href = href, !.final_link = href,
                                                 !.foundBy = <<tk.tier, tk.ident, href>>,
                                                 !.led = href])
                 ELSE [tk EXCEPT !.href = href, !.pc = "click"]]
    /\ UNCHANGED <<drivers, sessions, dom, harness, handler, route, bot>>

\* option B: the click, inside `async with context.expect_page(...)` when
\* page.url has no "vcloud" and inside `async with page` when it has, and
\* the choice of current_page_for_link_search.  expect_page raises a
\* timeout at its exit when no page opened.  `async with page` closes
\* the page at its exit (a Page is a context manager that closes itself), so
\* context.pages holds at most the new page and the closed page is kept.
FinalClick(t) ==
    /\ task[t].op = "final" /\ task[t].pc = "click"
    /\ \E fault \in BOOLEAN, tg \in Targets :
         LET tk       == task[t]
             el       == dom.elems[tk.elem]
             expects  == ~Contains(Lower(tk.page_url), <<"vcloud">>)
             moved    == [tk EXCEPT !.page_url = IF el.click = "same" THEN tg.url ELSE @,
                                    !.led = IF el.click \in {"popup", "same"}
                                               /\ TargetLink(tg) # <<>>
                                            THEN TargetLink(tg) ELSE @]
             onPage   == IF el.click = "same"
                         THEN [on |-> "page", url |-> tg.url, video_src |-> tg.video_src,
                               download_href |-> tg.download_href]
                         ELSE [on |-> "page", url |-> tk.page_url, video_src |-> <<>>,
                               download_href |-> <<>>]
             onNew    == [on |-> "new_page", url |-> tg.url, video_src |-> tg.video_src,
                          download_href |-> tg.download_href]
         IN  /\ sessions' = IF expects THEN sessions
                            ELSE [sessions EXCEPT ![tk.browser].page = "closed"]
             /\ task' = [task EXCEPT ![t] =
                    IF fault THEN BrowserFault(tk)
                    ELSE IF expects /\ el.click = "popup"
                         THEN [moved EXCEPT !.pc = "settle", !.focus = onNew]
                    ELSE IF expects THEN IdentifierFails(moved)
                    ELSE [moved EXCEPT !.pc = "settle", !.focus = onPage]]
    /\ UNCHANGED <<drivers, dom, harness, handler, route, bot>>

\* bring_to_front, wait_for_load_state and the delay on the focused page
FinalSettle(t) ==
    /\ task[t].op = "final" /\ task[t].pc = "settle"
    /\ \E fault \in BOOLEAN :
         LET tk     == task[t]
             closed == tk.focus.on = "page" /\ sessions[tk.browser].page # "open"
         IN  task' = [task EXCEPT ![t] =
                 IF closed THEN IdentifierFails(tk)
                 ELSE IF fault THEN BrowserFault(tk)
                 ELSE [tk EXCEPT !.pc = "extract"]]
    /\ UNCHANGED <<drivers, sessions, dom, harness, handler, route, bot>>

\* the three places, in order: the page URL, a video's src, a download
\* link's href.  The first test awaits nothing and cannot fail.
FinalExtract(t) ==
    /\ task[t].op = "final" /\ task[t].pc = "extract"
    /\ \E fault \in BOOLEAN :
         LET tk    == task[t]
             f     == tk.focus
             link  == IF IsDirectPageUrl(f.url) THEN f.url
                      ELSE IF IsDirectVideoSrc(f.video_src) THEN f.video_src
                      ELSE IF IsDirectDownloadHref(f.download_href) THEN f.download_href
                      ELSE <<>>
         IN  /\ fault => ~IsDirectPageUrl(f.url)
             /\ task' = [task EXCEPT ![t] =
                    IF fault THEN BrowserFault(tk)
                    ELSE IF link # <<>>
                    THEN AfterIdentifier([tk EXCEPT !.final_link = link,
                                                    !.foundBy = <<tk.tier, tk.ident, link>>])
                    ELSE AfterIdentifier(tk)]
    /\ UNCHANGED <<drivers, sessions, dom, harness, handler, route, bot>>

\* the placeholder link given whatever the source site is
FinalFallback_AnySite(t) ==
    /\ task[t].op = "final" /\ task[t].pc = "fallback"
    /\ task' = [task EXCEPT ![t] =
           IF @.final_link = <<>>
           THEN [@ EXCEPT !.final_link = DummyLink(task[t].url), !.pc = "finally"]
           ELSE [@ EXCEPT !.pc = "finally"]]
    /\ UNCHANGED <<drivers, sessions, dom, harness, handler, route, bot>>

\* the placeholder link of the dummy sites, when the loops found nothing
FinalFallback(t) ==
    /\ task[t].op = "final" /\ task[t].pc = "fallback"
    /\ task' = [task EXCEPT ![t] =
           IF @.final_link = <<>> /\ IsDummySite(@.site)
           THEN [@ EXCEPT !.final_link = DummyLink(task[t].url), !.pc = "finally"]
           ELSE [@ EXCEPT !.pc = "finally"]]
    /\ UNCHANGED <<drivers, sessions, dom, harness, handler, route, bot>>

FinalFinally(t) ==
    /\ task[t].op = "final" /\ task[t].pc = "finally"
    /\ ReleaseAndReturn(t, task[t].final_link)

------------------------------------------------------------------------------
(* One call of one operation                                                *)

NoDom == [elems |-> <<NoElem, NoElem, NoElem>>]

NoHarness ==
    [calls |-> 0, browser |-> 0, context |-> 0, before |-> <<>>, raised |-> FALSE,
     playwright |-> 0, held |-> 0]

NoHandler ==
    [pc |-> "idle", source_sites_urls |-> <<>>, site_results_list |-> <<>>,
     all_search_results |-> <<>>]

NoRoute ==
    [url |-> <<>>, resource_type |-> "none", called |-> "none",
     outcome |-> "none", overrides |-> <<>>, calls |-> <<>>, raised |-> FALSE]

\* a dict without keys
EmptyDict == [k \in {} |-> 0]

\* kind, chat_id, pc, selected_movie: the handler that runs, its chat, its
\* position and its local.  serial: the number of the last query.  History,
\* read by the properties only: last (the last call on the store, or what
\* the handler that returned did last), at (the time of that call), before
\* (the store before it), replaced (a query has cleared the entry of an
\* earlier query that had reached the download options), processed (the
\* chats whose last query had an option_ selection that reached
\* get_final_vcloud_download_link), answered (those of them whose handler
\* sent the link or the apology).
NoUpdate ==
    [kind |-> "none", chat_id |-> 0, pc |-> "idle", serial |-> 0,
     selected_movie |-> <<>>,
     last |-> "none", at |-> 0, before |-> EmptyDict, replaced |-> FALSE,
     processed |-> {}, answered |-> {}]

\* no page reported, no chat stored, no update being handled
InitBot ==
    /\ popup = <<>>
    /\ user_search_data = EmptyDict
    /\ now = 0
    /\ update = NoUpdate

InitWorld ==
    /\ drivers = <<>>
    /\ sessions = <<>>
    /\ harness = NoHarness
    /\ handler = NoHandler
    /\ route = NoRoute
    /\ InitBot

Init ==
    /\ InitWorld
    /\ \/ /\ dom = NoDom
          /\ \/ task = [t \in TaskIds |->
                         IF t = 1 THEN StartTask("sources", <<>>, VGLIST_URL) ELSE IdleTask]
             \/ \E site \in Sites :
                   task = [t \in TaskIds |->
                         IF t = 1 THEN StartTask("search", site, <<>>) ELSE IdleTask]
             \/ \E site \in Sites :
                   task = [t \in TaskIds |->
                         IF t = 1 THEN StartTask("options", site, site \o <<"/movie/x">>)
                         ELSE IdleTask]
       \/ /\ \E e1 \in Elems(1), e2 \in Elems(2), e3 \in Elems(3) :
                dom = [elems |-> <<e1, e2, e3>>]
          /\ \E site \in {AlphaSite, OtherSite}, url \in {TriggerPlain, TriggerVCloud} :
                task = [t \in TaskIds |->
                         IF t = 1 THEN StartTask("final", site, url) ELSE IdleTask]

SearchStep(t) ==
    \/ SearchAcquire(t) \/ SearchGoto(t) \/ SearchFill(t) \/ SearchSubmit(t)
    \/ SearchSettle(t) \/ SearchCheck(t) \/ SearchScrape(t) \/ SearchAfter(t)
    \/ SearchFinish(t)

Step(t) ==
    \/ SourcesAcquire(t) \/ SourcesScrape(t) \/ SourcesFinally(t)
    \/ OptionsAcquire(t) \/ OptionsGoto(t) \/ OptionsFinally(t)
    \/ SearchStep(t)
    \/ FinalAcquire(t) \/ FinalGoto(t) \/ FinalLocate(t) \/ FinalHref(t)
    \/ FinalClick(t) \/ FinalSettle(t) \/ FinalExtract(t) \/ FinalFallback(t)
    \/ FinalFinally(t)

Next == \E t \in TaskIds : Step(t)

Spec == Init /\ [][Next]_vars

\* one call of search_movie_on_site
InitSearch ==
    /\ InitWorld
    /\ dom = NoDom
    /\ \E site \in Sites :
          task = [t \in TaskIds |->
                    IF t = 1 THEN StartTask("search", site, <<>>) ELSE IdleTask]

NextSearch == \E t \in TaskIds : SearchStep(t)

SpecSearch == InitSearch /\ [][NextSearch]_vars

------------------------------------------------------------------------------
(* The fan-out of handle_movie_name_input                                   *)

\* the task that runs get_movie_source_websites; search i runs as task i
SourcesTask == 3

\* what asyncio.gather(*search_tasks, return_exceptions=True) holds for a
\* finished search: the list it returned, or the exception it raised
GatherResult(tk) ==
    IF tk.raised THEN [exc |-> TRUE, list |-> <<>>] ELSE [exc |-> FALSE, list |-> tk.ret]

\* the loop with `all_search_results = res_list_or_exc` in place of extend
RECURSIVE Collect_Overwrite(_)
Collect_Overwrite(site_results_list) ==
    IF site_results_list = <<>> THEN <<>>
    ELSE LET r == site_results_list[Len(site_results_list)] IN
         IF ~r.exc THEN r.list
         ELSE Collect_Overwrite(SubSeq(site_results_list, 1, Len(site_results_list) - 1))

\* the loop with `all_search_results = res_list_or_exc + all_search_results`
RECURSIVE Collect_Prepend(_)
Collect_Prepend(site_results_list) ==
    IF site_results_list = <<>> THEN <<>>
    ELSE LET r == Head(site_results_list) IN
         Collect_Prepend(Tail(site_results_list)) \o (IF ~r.exc THEN r.list ELSE <<>>)

\* the loop over site_results_list: a list extends all_search_results, an
\* exception is logged
RECURSIVE Collect(_)
Collect(site_results_list) ==
    IF site_results_list = <<>> THEN <<>>
    ELSE LET r == Head(site_results_list) IN
         (IF ~r.exc THEN r.list ELSE <<>>) \o Collect(Tail(site_results_list))

\* source_sites_urls = await get_movie_source_websites(...), the early return
\* and the creation of one search per site
HandlerGather ==
    /\ handler.pc = "discover" /\ Done(SourcesTask)
    /\ LET src == task[SourcesTask] IN
       IF src.raised
       THEN /\ handler' = [handler EXCEPT !.pc = "failed"]
            /\ task' = task
       ELSE IF src.ret = <<>>
       THEN /\ handler' = [handler EXCEPT !.pc = "no_sources"]
            /\ task' = task
       ELSE /\ handler' = [handler EXCEPT !.pc = "gather", !.source_sites_urls = src.ret]
            /\ task' = [t \in TaskIds |->
                          IF t \in 1..Len(src.ret)
                          THEN StartTask("search", src.ret[t], <<>>) ELSE task[t]]
    /\ UNCHANGED <<drivers, sessions, dom, harness, route, bot>>

\* gather returns when every search has finished; then the loop collects
HandlerCollect ==
    /\ handler.pc = "gather"
    /\ \A i \in 1..Len(handler.source_sites_urls) : Done(i)
    /\ LET got == [i \in 1..Len(handler.source_sites_urls) |-> GatherResult(task[i])] IN
       handler' = [handler EXCEPT !.pc = "collected", !.site_results_list = got,
                                  !.all_search_results = Collect(got)]
    /\ UNCHANGED <<drivers, sessions, task, dom, harness, route, bot>>

InitFanout ==
    /\ InitBot
    /\ drivers = <<>> /\ sessions = <<>>
    /\ harness = NoHarness /\ route = NoRoute /\ dom = NoDom
    /\ handler = [NoHandler EXCEPT !.pc = "discover"]
    /\ task = [t \in TaskIds |->
                 IF t = SourcesTask THEN StartTask("sources", <<>>, VGLIST_URL)
                 ELSE IdleTask]

SourcesStep(t) == SourcesAcquire(t) \/ SourcesScrape(t) \/ SourcesFinally(t)

NextFanout ==
    \/ HandlerGather
    \/ HandlerCollect
    \/ \E t \in TaskIds : SourcesStep(t) \/ SearchStep(t)

SpecFanout == InitFanout /\ [][NextFanout]_vars

------------------------------------------------------------------------------
(* One call of one operation that its caller may cancel                     *)

\* the awaits at which an operation that holds a session is suspended:
\* the sleep, the navigations, the fills, clicks, waits and reads of the page
SuspensionPoints(op) ==
    CASE op = "sources" -> {"scrape"}
      [] op = "options" -> {"goto"}
      [] op = "search"  -> {"goto", "fill", "submit", "settle"}
      [] op = "final"   -> {"goto", "locate", "href", "click", "settle", "extract"}
      [] OTHER          -> {}

\* the caller's deadline cancels the task: CancelledError is raised at the
\* await where the operation is suspended.  It is no Exception, so no
\* except clause takes it: a finally block runs, and the code after a
\* try without finally does not.
Cancel(t) ==
    /\ task[t].pc \in SuspensionPoints(task[t].op)
    /\ task[t].browser # 0
    /\ task' = [task EXCEPT ![t] =
            IF @.op = "search"
            THEN [@ EXCEPT !.pc = "done", !.raised = TRUE,
                           !.excs = @ \cup {"cancelled"}]
            ELSE [@ EXCEPT !.pc = "finally", !.excs = @ \cup {"cancelled"}]]
    /\ UNCHANGED <<drivers, sessions, dom, harness, handler, route, bot>>

\* the calls of Init, with a trigger page that holds at most a server of
\* the third tier
InitThirdTier ==
    /\ InitWorld
    /\ \/ /\ dom = NoDom
          /\ \/ task = [t \in TaskIds |->
                         IF t = 1 THEN StartTask("sources", <<>>, VGLIST_URL) ELSE IdleTask]
             \/ \E site \in Sites :
                   task = [t \in TaskIds |->
                         IF t = 1 THEN StartTask("search", site, <<>>) ELSE IdleTask]
             \/ \E site \in Sites :
                   task = [t \in TaskIds |->
                         IF t = 1 THEN StartTask("options", site, site \o <<"/movie/x">>)
                         ELSE IdleTask]
       \/ /\ \E e3 \in Elems(3) : dom = [elems |-> <<NoElem, NoElem, e3>>]
          /\ \E site \in {AlphaSite, OtherSite}, url \in {TriggerPlain, TriggerVCloud} :
                task = [t \in TaskIds |->
                         IF t = 1 THEN StartTask("final", site, url) ELSE IdleTask]

NextCancel == \E t \in TaskIds : Step(t) \/ Cancel(t)

SpecCancel == InitThirdTier /\ [][NextCancel]_vars

\* one call of one operation in which every await completes or raises: a
\* call that can take a step does take one
SpecReturn == InitThirdTier /\ [][Next]_vars /\ WF_vars(Next)

------------------------------------------------------------------------------
(* Two successive calls of get_movie_source_websites                        *)

\* the URLs the caller passes as vglist_url
SourceUrls == {VGLIST_URL, <<"https://", "vglist.nl", "/movies">>}

\* the second call, with the URL of the first, once the first has returned
SourcesAgain ==
    /\ Done(1) /\ task[1].op = "sources" /\ task[2].op = "idle"
    /\ task' = [task EXCEPT ![2] = StartTask("sources", <<>>, task[1].url)]
    /\ UNCHANGED <<drivers, sessions, dom, harness, handler, route, bot>>

InitTwice ==
    /\ InitWorld
    /\ dom = NoDom
    /\ \E url \in SourceUrls :
          task = [t \in TaskIds |->
                    IF t = 1 THEN StartTask("sources", <<>>, url) ELSE IdleTask]

NextTwice == SourcesAgain \/ \E t \in TaskIds : SourcesStep(t)

SpecTwice == InitTwice /\ [][NextTwice]_vars

------------------------------------------------------------------------------
(* block_ads_route                                                          *)

\* the 13th pattern of the source begins with a space and has "traffic" in
\* Devanagari letters
AD_DOMAINS_PATTERNS ==
    << <<"doubleclick.net">>, <<"googleadservices.com">>, <<"googlesyndication.com">>,
       <<"adservice.google.com">>, <<".cloudfront.net", "/ads">>, <<"adform.net">>,
       <<"adsrvr.org">>, <<"popads.net">>, <<"yllix.com">>, <<"propellerads.com">>,
       <<"adsterra.com">>, <<"onclickads.net">>, <<" ", "(traffic)junky.com">>,
       <<"exoclick.com">>, <<"ero-advertising.com">>, <<"juicyads.com">>,
       <<"plugrush.com">>, <<"bongacams.com">>, <<"chaturbate.com">> >>

\* the resource types the handler looks at, and other types of Playwright
AdResourceTypes == {"image", "script", "iframe", "media", "websocket"}

ResourceTypes ==
    AdResourceTypes \cup {"document", "stylesheet", "font", "xhr", "fetch"}

\* the URLs of the requests: of ad hosts, of a host that has a pattern in
\* its query, of hosts that resemble a pattern, and of the site itself
RequestUrls ==
    { <<"https://", "doubleclick.net", "/pixel">>,
      <<"https://", "cdn", ".", "popads.net", "/lp">>,
      <<"https://", "d1", ".cloudfront.net", "/ads", "/banner">>,
      <<"https://", "d1", ".cloudfront.net", "/lib">>,
      <<"https://", "trafficjunky.com", "/a">>,
      <<"https://", "cinema-hub", ".net", "/?ref=", "adsterra.com">>,
      AlphaSite \o <<"/poster">>,
      OtherSite \o <<"/player">> }

\* the handler that aborts every request of a denylisted URL
block_ads_route_AnyType(url, resource_type, abortFails, continueFails) ==
    IF ContainsAny(url, AD_DOMAINS_PATTERNS)
    THEN [called |-> "abort", calls |-> <<"abort">>, raised |-> FALSE,
          outcome |-> IF abortFails THEN "unhandled" ELSE "aborted"]
    ELSE [called |-> "continue_", calls |-> <<"continue_">>, raised |-> FALSE,
          outcome |-> IF continueFails THEN "unhandled" ELSE "continued"]

\* the handler whose failed abort falls through to the continue_
block_ads_route_FallsThrough(url, resource_type, abortFails, continueFails) ==
    IF resource_type \in AdResourceTypes /\ ContainsAny(url, AD_DOMAINS_PATTERNS)
         /\ ~abortFails
    THEN [called |-> "abort", calls |-> <<"abort">>, raised |-> FALSE,
          outcome |-> "aborted"]
    ELSE [called |-> "continue_",
          calls |-> IF resource_type \in AdResourceTypes
                         /\ ContainsAny(url, AD_DOMAINS_PATTERNS)
                    THEN <<"abort", "continue_">> ELSE <<"continue_">>,
          raised |-> FALSE,
          outcome |-> IF continueFails THEN "unhandled" ELSE "continued"]

\* block_ads_route(route): the method of the route it calls (called; calls:
\* every method it calls, in order), whether an exception leaves it, and
\* what becomes of the request.  A call that raises (abortFails, continueFails: the
\* request was handled already) is swallowed, and nothing else is called.
block_ads_route(url, resource_type, abortFails, continueFails) ==
    IF resource_type \in AdResourceTypes /\ ContainsAny(url, AD_DOMAINS_PATTERNS)
    THEN [called |-> "abort", calls |-> <<"abort">>, raised |-> FALSE,
          outcome |-> IF abortFails THEN "unhandled" ELSE "aborted"]
    ELSE [called |-> "continue_", calls |-> <<"continue_">>, raised |-> FALSE,
          outcome |-> IF continueFails THEN "unhandled" ELSE "continued"]

\* the context calls the handler with a request of a page
BlockAdsRoute ==
    /\ route.outcome = "pending"
    /\ \E abortFails \in BOOLEAN, continueFails \in BOOLEAN :
          LET r == block_ads_route(route.url, route.resource_type,
                                   abortFails, continueFails) IN
          route' = [route EXCEPT !.called = r.called, !.outcome = r.outcome,
                                 !.calls = r.calls, !.raised = r.raised]
    /\ UNCHANGED <<drivers, sessions, task, dom, harness, handler, bot>>

InitRoute ==
    /\ InitBot
    /\ drivers = <<>> /\ sessions = <<>>
    /\ harness = NoHarness /\ handler = NoHandler /\ dom = NoDom
    /\ task = [t \in TaskIds |-> IdleTask]
    /\ \E url \in RequestUrls, resource_type \in ResourceTypes :
          route = [NoRoute EXCEPT !.url = url, !.resource_type = resource_type,
                                  !.outcome = "pending"]

NextRoute == BlockAdsRoute

SpecRoute == InitRoute /\ [][NextRoute]_vars

------------------------------------------------------------------------------
(* A caller that acquires sessions and releases them, more than once        *)

MaxSessions == 2
MaxCalls == 3

\* playwright, browser, context, page = await get_playwright_page(instance):
\* the caller's variables (harness.playwright, harness.held) are assigned when
\* the call returns, whatever they held before
HarnessAcquire ==
    /\ Cardinality(DOMAIN sessions \cup DOMAIN drivers) < MaxSessions
    /\ \E instance \in {0} \cup DOMAIN drivers,
          failAt \in {AcquireSteps[i] : i \in 1..Len(AcquireSteps)} :
          LET r == get_playwright_page(drivers, sessions, instance, failAt,
                       Cardinality(DOMAIN sessions \cup DOMAIN drivers) + 1) IN
          /\ failAt = "start" => instance = 0
          /\ drivers' = r.drivers
          /\ sessions' = r.sessions
          /\ harness' = IF r.ok
                        THEN [harness EXCEPT !.playwright = r.pw, !.held = r.id]
                        ELSE harness
    /\ UNCHANGED <<task, dom, handler, route, bot>>

\* await close_playwright_resources(browser, context) with the browser of a
\* session that was acquired (or None) and its context (or None, the default)
HarnessRelease ==
    /\ harness.calls < MaxCalls
    /\ \E b \in {0} \cup DOMAIN sessions, ctxFails \in BOOLEAN, brFails \in BOOLEAN :
       \E c \in {0, b} :
          LET r == close_playwright_resources(sessions, b, c, ctxFails, brFails) IN
          /\ b # 0 => sessions[b].page # "none"
          /\ b = 0 => ~brFails
          /\ c = 0 => ~ctxFails
          /\ sessions' = r.sessions
          /\ harness' = [harness EXCEPT !.calls = @ + 1, !.browser = b, !.context = c,
                                         !.before = sessions, !.raised = r.raised]
    /\ UNCHANGED <<drivers, task, dom, handler, route, bot>>

InitSession ==
    /\ InitWorld
    /\ dom = NoDom
    /\ task = [t \in TaskIds |-> IdleTask]

NextSession == HarnessAcquire \/ HarnessRelease

SpecSession == InitSession /\ [][NextSession]_vars

-------------------------------------------------------------------------------
(* handle_popup, the listener of the context's "page" event                 *)

MaxPopups == 2

\* the URLs a new page has when the listener reads it
PopupUrls == RequestUrls \cup { <<"about:blank">> }

\* the listener that closes every new page
handle_popup_AnyUrl(url, state, closeFails) ==
    LET raises == closeFails \/ state # "open" IN
    [close_called |-> TRUE,
     state        |-> IF closeFails THEN state ELSE "closed",
     swallowed    |-> raises,
     raised       |-> FALSE]

\* handle_popup(popup_page): whether it calls popup_page.close(), the state
\* of the page afterwards, and whether an exception of the close was
\* swallowed or left the listener.  The close raises when the page is closed
\* already, or when the environment makes it fail (closeFails).
handle_popup(url, state, closeFails) ==
    IF ContainsAny(url, AD_DOMAINS_PATTERNS)
    THEN LET raises == closeFails \/ state # "open" IN
         [close_called |-> TRUE,
          state        |-> IF closeFails THEN state ELSE "closed",
          swallowed    |-> raises,
          raised       |-> FALSE]
    ELSE [close_called |-> FALSE, state |-> state,
          swallowed |-> FALSE, raised |-> FALSE]

\* the context reports a new page, which may have closed itself by the time
\* the listener runs
HandlePopup ==
    /\ Len(popup) < MaxPopups
    /\ \E url \in PopupUrls, state \in {"open", "closed"}, closeFails \in BOOLEAN :
          LET r == handle_popup(url, state, closeFails) IN
          /\ ~r.close_called => ~closeFails
          /\ popup' = Append(popup, [url |-> url, was |-> state, state |-> r.state,
                                     close_called |-> r.close_called,
                                     swallowed |-> r.swallowed, raised |-> r.raised])
    /\ UNCHANGED <<drivers, sessions, task, dom, harness, handler, route,
                   user_search_data, now, update>>

InitPopup ==
    /\ InitWorld
    /\ dom = NoDom
    /\ task = [t \in TaskIds |-> IdleTask]

NextPopup == HandlePopup

SpecPopup == InitPopup /\ [][NextPopup]_vars

-------------------------------------------------------------------------------
(* data_manager and the handlers of the bot that use it                     *)

DATA_EXPIRY_SECONDS == 7200

Chats == {1, 2}

\* the texts of the messages, stripped; "": nothing but white space
MovieNames == {"", "heat"}

\* the seconds that pass between two steps, and the end of the clock
Ticks == {3600, 3601}
MaxNow == 7202

\* the queries are numbered; a stored value is a pair of what it is and the
\* number of the query it was computed for
MaxQueries == 2
Serial(value) == value[2]

\* d[key] = value
Put(d, key, value) ==
    [k \in DOMAIN d \cup {key} |-> IF k = key THEN value ELSE d[k]]

\* store_user_data(chat_id, key, value) at time.time() = current_time
store_user_data(usd, current_time, chat_id, key, value) ==
    IF chat_id \notin DOMAIN usd
    THEN Put(usd, chat_id, [timestamp |-> current_time,
                            data |-> Put(EmptyDict, key, value)])
    ELSE Put(usd, chat_id, [timestamp |-> current_time,
                            data |-> Put(usd[chat_id].data, key, value)])

\* get_user_data(chat_id, key); <<>>: None
get_user_data(usd, chat_id, key) ==
    IF chat_id \in DOMAIN usd /\ key \in DOMAIN usd[chat_id].data
    THEN usd[chat_id].data[key]
    ELSE <<>>

\* clear_user_data(chat_id)
clear_user_data(usd, chat_id) ==
    [c \in DOMAIN usd \ {chat_id} |-> usd[c]]

\* cleanup_expired_data that removes an entry at the second it expires
cleanup_expired_data_AtExpiry(usd, current_time) ==
    LET expired_users ==
            {c \in DOMAIN usd : current_time - usd[c].timestamp >= DATA_EXPIRY_SECONDS}
    IN  [c \in DOMAIN usd \ expired_users |-> usd[c]]

\* cleanup_expired_data at time.time() = current_time
cleanup_expired_data(usd, current_time) ==
    LET expired_users ==
            {c \in DOMAIN usd : current_time - usd[c].timestamp > DATA_EXPIRY_SECONDS}
    IN  [c \in DOMAIN usd \ expired_users |-> usd[c]]

\* the handler has returned; `call` is what it did last, for the chat and at
\* the time that are kept when it was a call on the store
Returned(call, chat_id) ==
    LET kept == call \in {"store", "clear", "delivered", "apologised", "edit_raised",
                          "expired", "unknown", "ignored"} IN
    [update EXCEPT !.kind = "none", !.pc = "idle", !.last = call,
                   !.selected_movie = <<>>,
                   !.chat_id = IF kept THEN chat_id ELSE 0,
                   !.at = IF call = "store" THEN now ELSE 0,
                   !.before = EmptyDict]

\* time passes
Tick ==
    /\ \E dt \in Ticks : now + dt <= MaxNow /\ now' = now + dt
    /\ UNCHANGED <<drivers, sessions, task, dom, harness, handler, route,
                   popup, user_search_data, update>>

\* the job of the scheduler, in a thread of its own
Cleanup ==
    /\ user_search_data' = cleanup_expired_data(user_search_data, now)
    /\ update' = [update EXCEPT !.last = "cleanup", !.at = now,
                                !.before = user_search_data]
    /\ UNCHANGED <<drivers, sessions, task, dom, harness, handler, route, popup, now>>

\* start_command
StartCommand ==
    /\ update.pc = "idle"
    /\ \E chat_id \in Chats :
          /\ user_search_data' = clear_user_data(user_search_data, chat_id)
          /\ update' = Returned("clear", chat_id)
    /\ UNCHANGED <<drivers, sessions, task, dom, harness, handler, route, popup, now>>

\* handle_movie_name_input without the clear_user_data
MovieNameInput_NoClear(chat_id, movie_name) ==
    /\ update.pc = "idle" /\ update.serial < MaxQueries
    /\ IF movie_name = ""
       THEN /\ update' = Returned("none", chat_id)
            /\ UNCHANGED user_search_data
       ELSE /\ user_search_data' =
                  store_user_data(user_search_data, now, chat_id,
                                  "movie_name", <<movie_name, update.serial + 1>>)
            /\ update' = [update EXCEPT !.kind = "query", !.chat_id = chat_id,
                                        !.pc = "searching", !.serial = @ + 1,
                                        !.last = "query", !.at = now,
                                        !.before = EmptyDict,
                                        !.processed = @ \ {chat_id},
                                        !.answered = @ \ {chat_id},
                                        !.replaced = @ \/
                                            get_user_data(user_search_data, chat_id,
                                                "download_options_indexed") # <<>>]
    /\ UNCHANGED <<drivers, sessions, task, dom, harness, handler, route, popup, now>>

\* handle_movie_name_input, up to the status message: an empty text is
\* answered; otherwise the entry of the chat is cleared and the name stored
MovieNameInput(chat_id, movie_name) ==
    /\ update.pc = "idle" /\ update.serial < MaxQueries
    /\ IF movie_name = ""
       THEN /\ update' = Returned("none", chat_id)
            /\ UNCHANGED user_search_data
       ELSE /\ user_search_data' =
                  store_user_data(clear_user_data(user_search_data, chat_id), now,
                                  chat_id, "movie_name", <<movie_name, update.serial + 1>>)
            /\ update' = [update EXCEPT !.kind = "query", !.chat_id = chat_id,
                                        !.pc = "searching", !.serial = @ + 1,
                                        !.last = "query", !.at = now,
                                        !.before = EmptyDict,
                                        !.processed = @ \ {chat_id},
                                        !.answered = @ \ {chat_id},
                                        !.replaced = @ \/
                                            get_user_data(user_search_data, chat_id,
                                                "download_options_indexed") # <<>>]
    /\ UNCHANGED <<drivers, sessions, task, dom, harness, handler, route, popup, now>>

\* handle_movie_name_input, from the discovery on: the results are stored
\* when there are any; no sources, no results and an exception store nothing
MovieNameResults ==
    /\ update.kind = "query" /\ update.pc = "searching"
    /\ \E outcome \in {"no_sources", "no_results", "results", "error"} :
          IF outcome = "results"
          THEN /\ user_search_data' =
                     store_user_data(user_search_data, now, update.chat_id,
                                     "search_results", <<"results", update.serial>>)
               /\ update' = Returned("store", update.chat_id)
          ELSE /\ update' = Returned("none", update.chat_id)
               /\ UNCHANGED user_search_data
    /\ UNCHANGED <<drivers, sessions, task, dom, harness, handler, route, popup, now>>

\* button_callback_handler, up to the await of the scraper; it answers
\* "expired" when the chat has no movie_name, and "unknown" when the
\* selection is not in the store.  hasChat: the
\* callback query has the attribute effective_chat that l.169 reads; where it
\* has not, the lookup raises before the try block.  known: the id of the
\* button is a key of the stored dict.
ButtonCallback ==
    /\ update.pc = "idle"
    /\ \E chat_id \in Chats, branch \in {"movie_", "option_", "other"},
          known \in BOOLEAN, hasChat \in BOOLEAN :
          LET movie_name       == get_user_data(user_search_data, chat_id, "movie_name")
              search_results   == get_user_data(user_search_data, chat_id, "search_results")
              selected_movie   == get_user_data(user_search_data, chat_id,
                                                "selected_movie_details")
              download_options_indexed ==
                                  get_user_data(user_search_data, chat_id,
                                                "download_options_indexed")
              back(call)       == Returned(call, chat_id)
          IN
          IF ~hasChat
          THEN /\ update' = back("raised") /\ UNCHANGED user_search_data
          ELSE IF movie_name = <<>>
          THEN /\ update' = back("expired") /\ UNCHANGED user_search_data
          ELSE IF branch = "other"
          THEN /\ update' = back("ignored") /\ UNCHANGED user_search_data
          ELSE IF branch = "movie_"
          THEN IF search_results = <<>> \/ ~known
               THEN /\ update' = back("unknown") /\ UNCHANGED user_search_data
               ELSE /\ user_search_data' =
                          store_user_data(user_search_data, now, chat_id,
                                          "selected_movie_details",
                                          <<"selected", Serial(search_results)>>)
                    /\ update' = [update EXCEPT !.kind = "movie", !.chat_id = chat_id,
                                                !.selected_movie =
                                                    <<"selected", Serial(search_results)>>,
                                                !.pc = "options", !.last = "store",
                                                !.at = now, !.before = EmptyDict]
          ELSE IF selected_movie = <<>> \/ download_options_indexed = <<>> \/ ~known
               THEN /\ update' = back("unknown") /\ UNCHANGED user_search_data
               ELSE /\ update' = [update EXCEPT !.kind = "option", !.chat_id = chat_id,
                                                !.pc = "final", !.last = "none",
                                                !.at = 0, !.before = EmptyDict]
                    /\ UNCHANGED user_search_data
    /\ UNCHANGED <<drivers, sessions, task, dom, harness, handler, route, popup, now>>

\* the movie_ branch after get_movie_download_options: the options are
\* stored when there are any
ButtonOptions ==
    /\ update.kind = "movie" /\ update.pc = "options"
    /\ \E outcome \in {"none", "options", "error"} :
          IF outcome = "options"
          THEN /\ user_search_data' =
                     store_user_data(user_search_data, now, update.chat_id,
                                     "download_options_indexed",
                                     <<"options", Serial(update.selected_movie)>>)
               /\ update' = Returned("store", update.chat_id)
          ELSE /\ update' = Returned("none", update.chat_id)
               /\ UNCHANGED user_search_data
    /\ UNCHANGED <<drivers, sessions, task, dom, harness, handler, route, popup, now>>

\* the option_ branch that clears the entry only when it has a link to send
ButtonFinal_ClearOnLink ==
    /\ update.kind = "option" /\ update.pc = "final"
    /\ \E final_download_link \in {"link", "None"}, editRaises \in BOOLEAN :
          LET c == update.chat_id IN
          IF editRaises
          THEN /\ update' = [Returned("edit_raised", c) EXCEPT !.processed = @ \cup {c}]
               /\ UNCHANGED user_search_data
          ELSE /\ user_search_data' = IF final_download_link = "link"
                                      THEN clear_user_data(user_search_data, c)
                                      ELSE user_search_data
               /\ update' = [Returned(IF final_download_link = "link" THEN "delivered"
                                      ELSE "apologised", c)
                                EXCEPT !.processed = @ \cup {c}, !.answered = @ \cup {c}]
    /\ UNCHANGED <<drivers, sessions, task, dom, harness, handler, route, popup, now>>

\* the option_ branch after get_final_vcloud_download_link: the link or
\* the apology is sent, and the entry of the chat is cleared; an exception
\* of the second try of the edit leaves the try block before the clear
ButtonFinal ==
    /\ update.kind = "option" /\ update.pc = "final"
    /\ \E final_download_link \in {"link", "None"}, editRaises \in BOOLEAN :
          LET c == update.chat_id IN
          IF editRaises
          THEN /\ update' = [Returned("edit_raised", c) EXCEPT !.processed = @ \cup {c}]
               /\ UNCHANGED user_search_data
          ELSE /\ user_search_data' = clear_user_data(user_search_data, c)
               /\ update' = [Returned(IF final_download_link = "link" THEN "delivered"
                                      ELSE "apologised", c)
                                EXCEPT !.processed = @ \cup {c}, !.answered = @ \cup {c}]
    /\ UNCHANGED <<drivers, sessions, task, dom, harness, handler, route, popup, now>>

InitStore ==
    /\ InitWorld
    /\ dom = NoDom
    /\ task = [t \in TaskIds |-> IdleTask]

NextStore ==
    \/ Tick
    \/ Cleanup
    \/ StartCommand
    \/ \E chat_id \in Chats, movie_name \in MovieNames : MovieNameInput(chat_id, movie_name)
    \/ MovieNameResults
    \/ ButtonCallback
    \/ ButtonOptions
    \/ ButtonFinal

SpecStore == InitStore /\ [][NextStore]_vars

------------------------------------------------------------------------------
(* Properties of one call                                                   *)

ClosedBrowsers == {i \in DOMAIN sessions : sessions[i].browser = "closed"}

\* every identifier of every tier, in the order of server_priority
AllIdentifiers ==
    <<<<1, 1>>, <<1, 2>>, <<1, 3>>, <<1, 4>>, <<2, 1>>, <<2, 2>>, <<2, 3>>, <<2, 4>>,
      <<3, 1>>, <<3, 2>>, <<3, 3>>, <<3, 4>>>>

\* C1: when a call of one of the four operations has returned, every browser
\* it launched has been closed: as many closes as launches.
C1_LaunchesEqualCloses ==
    \A t \in TaskIds :
        Done(t) => Cardinality(ClosedBrowsers) = Cardinality(DOMAIN sessions)

\* C2: once an identifier of a tier has yielded a link, no identifier of a
\* later tier is tried, at any later point of the call, and the link that
\* the call returns is the link that identifier yielded.
C2_NoLowerTierAfterLink ==
    \A t \in TaskIds :
        LET tk == task[t] IN
        tk.foundBy # <<>> =>
            /\ \A i \in 1..Len(tk.tried) : tk.tried[i][1] <= tk.foundBy[1]
            /\ tk.final_link = tk.foundBy[3]
            /\ Done(t) => tk.ret = tk.foundBy[3] /\ tk.ret # <<>>

\* C2, reached: a link found in the first tier is returned while the page
\* holds elements of both other tiers.
C2_Witness ==
    /\ Done(1) /\ task[1].foundBy # <<>> /\ task[1].foundBy[1] = 1
    /\ dom.elems[2] # NoElem /\ dom.elems[3] # NoElem
    /\ task[1].ret = task[1].foundBy[3]

\* C3: the identifiers are tried in the listed order, none skipped and none
\* repeated, and the identifier that yields a link is the last one tried.
C3_ListedOrderFirstWins ==
    \A t \in TaskIds :
        LET tk == task[t] IN
        /\ Len(tk.tried) <= Len(AllIdentifiers)
        /\ tk.tried = SubSeq(AllIdentifiers, 1, Len(tk.tried))
        /\ tk.foundBy # <<>> =>
               tk.tried[Len(tk.tried)] = <<tk.foundBy[1], tk.foundBy[2]>>

\* C3, reached: the first identifier of "FSL Server" yields the link of an
\* element that the tier's pattern, its last identifier, selects as well.
C3_Witness ==
    /\ Done(1) /\ task[1].foundBy # <<>>
    /\ task[1].foundBy[1] = 2 /\ task[1].foundBy[2] = 1
    /\ Selects(server_priority[2].identifiers[4], dom.elems[2])
    /\ Len(task[1].tried) = 5

\* C4: when the first attempt of a search ended on another origin than
\* site_url and the second on the origin of site_url, the call returns
\* what the second attempt scraped; and when the second attempt is about to
\* acquire its session, every browser and context of the first is closed.
C4_RetryAfterRedirect ==
    \A t \in TaskIds :
        LET tk == task[t] IN
        (tk.op = "search" /\ tk.landed # <<>>
            /\ Origin(tk.landed[1]) # Origin(tk.site)) =>
            /\ (tk.attempt = 1 /\ tk.pc = "acquire") =>
                  \A i \in DOMAIN sessions :
                      sessions[i].browser = "closed" /\ sessions[i].context = "closed"
            /\ (Done(t) /\ Len(tk.landed) = 2
                   /\ Origin(tk.landed[2]) = Origin(tk.site)) =>
                  /\ tk.scraped # <<>>
                  /\ tk.scraped[Len(tk.scraped)].attempt = 1
                  /\ tk.ret = tk.scraped[Len(tk.scraped)].items
                  /\ tk.ret = DummyResults(tk.site, MovieName)

\* C4, reached: an ad page, then the site, and a result is returned.
C4_Witness ==
    /\ Done(1) /\ Len(task[1].landed) = 2
    /\ Origin(task[1].landed[1]) # Origin(task[1].site)
    /\ Origin(task[1].landed[2]) = Origin(task[1].site)
    /\ task[1].ret # <<>>
    /\ Cardinality(DOMAIN sessions) = 2

\* the exceptions that reach the handlers of the operation itself
Fatal == {"acquire", "navigation", "interaction"}

\* every attempt of the call ended in a handler of the operation
EveryAttemptFailed(tk) ==
    IF tk.op = "search" THEN tk.failed = tk.attempt + 1 ELSE tk.failed > 0

\* C6 as stated: no operation raises, and after an exception at any step,
\* the release and a single identifier's interaction included, the
\* operation returns the empty list or None (a search, when every attempt
\* failed).
C6_AnyExceptionGivesEmpty ==
    \A t \in TaskIds :
        LET tk == task[t] IN
        Done(t) =>
            /\ ~tk.raised
            /\ (IF tk.op = "search" THEN EveryAttemptFailed(tk) ELSE tk.excs # {})
                  => tk.ret = <<>>

\* C6, amended: no operation raises, and after an exception that reaches
\* the operation's own handler (from the acquire, a navigation or, in a
\* search, an interaction) in its only attempt, or in every attempt of a
\* search, it returns the empty list or None.
C6_HandledExceptionGivesEmpty ==
    \A t \in TaskIds :
        LET tk == task[t] IN
        Done(t) =>
            /\ ~tk.raised
            /\ tk.excs \subseteq (Fatal \cup {"identifier", "fault", "release"})
            /\ (tk.failed > 0) = (tk.excs \cap Fatal # {})
            /\ EveryAttemptFailed(tk) => tk.ret = <<>>

\* C6, reached: the navigation to the detail page of a dummy site fails, the
\* release fails as well, and the options are empty.
C6_Witness ==
    /\ Done(1) /\ task[1].op = "options" /\ task[1].site = AlphaSite
    /\ task[1].excs = {"navigation", "release"}
    /\ task[1].ret = <<>> /\ ~task[1].raised

\* the identifiers have all been tried and none has set final_link
Exhausted(tk) ==
    tk.op = "final" /\ tk.foundBy = <<>> /\ tk.tried = AllIdentifiers

\* C8 as stated: None is returned whenever every identifier of every tier
\* has been tried and none yielded a link, whatever source_site is.
C8_ExhaustedGivesNone ==
    \A t \in TaskIds :
        (Done(t) /\ Exhausted(task[t])) => task[t].ret = <<>>

\* C8, amended: then None is returned for a source_site that contains
\* neither "dummy-movie-site" nor "example.com", and for the others the
\* placeholder link, download_trigger_url followed by
\* "/final_vcloud_link_server1_dummy.mp4".
C8_ExhaustedGivesNoneOrPlaceholder ==
    \A t \in TaskIds :
        LET tk == task[t] IN
        (Done(t) /\ Exhausted(tk)) =>
            /\ tk.site = OtherSite => tk.ret = <<>>
            /\ tk.site = AlphaSite =>
                  tk.ret = tk.url \o <<"/final_vcloud_link_server1_dummy", ".mp4">>

\* C8, reached: a page with servers in every tier, none of which yields a
\* link, on a site that is no dummy site.
C8_Witness ==
    /\ Done(1) /\ Exhausted(task[1]) /\ task[1].site = OtherSite
    /\ \A i \in 1..3 : dom.elems[i] # NoElem
    /\ task[1].ret = <<>>

\* C9: on a page with no element for "Server One" and none for "FSL Server"
\* and with an element for "10 Gbps Server" that leads to a direct media
\* link (its href is one, or the page shown after a click on it holds one),
\* the call, if the browser fails nowhere, returns that link, found by an
\* identifier of the third tier.
C9_LowestTierLinkReturned ==
    \A t \in TaskIds :
        LET tk == task[t] IN
        (Done(t) /\ tk.op = "final"
            /\ dom.elems[1] = NoElem /\ dom.elems[2] = NoElem /\ dom.elems[3] # NoElem
            /\ tk.excs \cap (Fatal \cup {"fault", "release"}) = {}
            /\ tk.led # <<>>) =>
            /\ tk.foundBy # <<>> /\ tk.foundBy[1] = 3
            /\ tk.ret = tk.led

------------------------------------------------------------------------------
(* Properties of the fan-out, of the route handler and of the release       *)

\* the search of site i ended every attempt in an exception, or raised
SearchFailed(i) ==
    task[i].raised \/ (task[i].failed = max_retries + 1 /\ task[i].ret = <<>>)

\* C5: in the fan-out, whatever the interleaving of the searches, the
\* aggregate holds the results of every search that returned a list, in the
\* order of the sites, even when the search of another site failed.
C5_FailedSearchKeepsOthers ==
    handler.pc = "collected" =>
        /\ \A i \in 1..2 :
              (SearchFailed(i) /\ ~task[3 - i].raised) =>
                  handler.all_search_results = task[3 - i].ret
        /\ (\A i \in 1..2 : ~task[i].raised) =>
              handler.all_search_results = task[1].ret \o task[2].ret

\* C5, reached: the search of the second site failed in both attempts, after
\* the search of the first site had acquired its browser, and the aggregate
\* is the result of the first site.
C5_Witness ==
    /\ handler.pc = "collected"
    /\ SearchFailed(2) /\ task[2].excs # {}
    /\ task[1].ret # <<>>
    /\ handler.all_search_results = task[1].ret
    /\ Cardinality(ClosedBrowsers) >= 3

\* C7: block_ads_route calls abort exactly for a request whose resource type
\* is image, script, iframe, media or websocket and whose URL contains a
\* pattern of the denylist; for every other request it calls continue_,
\* without overrides.  A denylisted URL is aborted as an image and continued
\* as a document.
C7_AbortIffAdTypeAndDenylisted ==
    route.called # "none" =>
        LET listed == \E i \in 1..Len(AD_DOMAINS_PATTERNS) :
                          Contains(route.url, AD_DOMAINS_PATTERNS[i])
            gated  == route.resource_type \in
                          {"image", "script", "iframe", "media", "websocket"}
        IN  /\ route.called = (IF gated /\ listed THEN "abort" ELSE "continue_")
            /\ route.outcome \in
                  (IF gated /\ listed THEN {"aborted", "unhandled"}
                                      ELSE {"continued", "unhandled"})
            /\ route.overrides = <<>>
            /\ route.url = <<"https://", "doubleclick.net", "/pixel">> =>
                  /\ route.resource_type = "image" => route.called = "abort"
                  /\ route.resource_type = "document" => route.called = "continue_"

\* C7, reached: the image of an ad host has been aborted.
C7_Witness ==
    /\ route.url = <<"https://", "doubleclick.net", "/pixel">>
    /\ route.resource_type = "image"
    /\ route.outcome = "aborted"

\* the browser and the context of the last release were closed before it
ReleasedAgain ==
    /\ harness.calls > 1 /\ harness.browser # 0
    /\ harness.before[harness.browser].browser = "closed"
    /\ harness.before[harness.browser].context = "closed"

\* C10: close_playwright_resources never raises, and a call on a browser and
\* a context that are closed already leaves the sessions as they were.
C10_ReleaseNeverRaisesIdempotent ==
    /\ ~harness.raised
    /\ ReleasedAgain =>
          [i \in DOMAIN harness.before |-> sessions[i]] = harness.before

\* C10, reached: a second release of a closed browser and its closed context
\* has returned.
C10_Witness ==
    /\ ReleasedAgain /\ harness.context = harness.browser
    /\ ~harness.raised
    /\ sessions[harness.browser].browser = "closed"

\* every acquire that launched a browser has returned its session
AllAcquired == \A i \in DOMAIN sessions : sessions[i].page # "none"

\* C11: when get_playwright_page was called again while the session of an
\* earlier call was unreleased, and no acquire failed, then after the caller
\* has released the browser and the context it holds, no browser of any of
\* the acquires is open.
C11_ReacquireLeaksNothing ==
    (/\ harness.calls > 0 /\ harness.held # 0
     /\ harness.browser = harness.held /\ harness.context = harness.held
     /\ AllAcquired) => OpenBrowsers = {}

\* C12: a context that has a page has the request filter and the popup
\* listener installed, whether or not get_playwright_page went on to return;
\* so the session an operation holds, which it gets before its first
\* navigation, has both.
C12_FilterBeforePage ==
    /\ \A i \in DOMAIN sessions :
          sessions[i].page # "none" => sessions[i].routed /\ sessions[i].listening
    /\ \A t \in TaskIds :
          task[t].browser # 0 =>
              /\ sessions[task[t].browser].routed
              /\ sessions[task[t].browser].listening

\* C12, reached: an operation has navigated with its page, on a context
\* that filters requests and listens for popups.
C12_Witness ==
    /\ task[1].op = "final" /\ task[1].pc = "locate"
    /\ task[1].page_url # <<>>
    /\ sessions[task[1].browser].page = "open"
    /\ sessions[task[1].browser].routed /\ sessions[task[1].browser].listening

\* C13: a call of search_movie_on_site makes at most max_retries + 1 = 2
\* attempts: it never starts a third, it starts at most two drivers and
\* launches at most two browsers, whatever redirects, exceptions and empty
\* results occur.
C13_AtMostTwoAttempts ==
    \A t \in TaskIds :
        task[t].op = "search" =>
            /\ task[t].attempt <= 1
            /\ Len(task[t].landed) <= 2
            /\ task[t].failed <= 2
            /\ Cardinality(DOMAIN sessions) <= 2
            /\ Cardinality(DOMAIN drivers) <= 2

\* C13, reached: a search has returned after two attempts, each with a
\* browser of its own, the first redirected and the second without results.
C13_Witness ==
    /\ Done(1) /\ task[1].op = "search" /\ task[1].attempt = 1
    /\ Len(task[1].landed) = 2
    /\ Cardinality(DOMAIN sessions) = 2
    /\ task[1].ret = <<>>

\* C14: the combined list of handle_movie_name_input is the list of the
\* first site's search followed by the list of the second site's search;
\* every record a search returns carries the site_url it was called with as
\* source_site; and two sites with one result each give a list of length 2.
C14_ConcatenationInSiteOrder ==
    /\ \A t \in TaskIds :
          task[t].op = "search" =>
              /\ \A k \in 1..Len(task[t].results) :
                    task[t].results[k].source_site = task[t].site
              /\ \A k \in 1..Len(task[t].ret) :
                    task[t].ret[k].source_site = task[t].site
    /\ handler.pc = "collected" =>
          /\ handler.source_sites_urls = <<task[1].site, task[2].site>>
          /\ handler.all_search_results = task[1].ret \o task[2].ret
          /\ (Len(task[1].ret) = 1 /\ Len(task[2].ret) = 1) =>
                /\ Len(handler.all_search_results) = 2
                /\ handler.all_search_results[1].source_site = AlphaSite
                /\ handler.all_search_results[2].source_site = BetaSite

\* C14, reached: both searches returned one result, the second site's
\* search at its second attempt, and the combined list holds the two.
C14_Witness ==
    /\ handler.pc = "collected"
    /\ Len(task[1].ret) = 1 /\ Len(task[2].ret) = 1
    /\ task[2].attempt = 1
    /\ Len(handler.all_search_results) = 2

\* both calls of get_movie_source_websites have returned
BothReturned ==
    /\ Done(1) /\ Done(2)
    /\ task[1].op = "sources" /\ task[2].op = "sources"
    /\ task[1].url = task[2].url

C16_ReturnedLinkIsDirectMedia ==
    \A t \in TaskIds :
        (Done(t) /\ task[t].op = "final" /\ task[t].ret # <<>>) =>
            \/ \E ext \in {".mp4", ".mkv", ".avi", ".webm"} :
                  task[t].ret[Len(task[t].ret)] = ext
            \/ \E i \in 1..Len(task[t].ret) :
                  task[t].ret[i] = "googlevideo.com/videoplayback"

\* C16, reached: the link returned is the src of a video element on the
\* page that a click opened.
C16_Witness ==
    /\ Done(1) /\ task[1].op = "final"
    /\ task[1].ret = MediaUrl(".mkv")
    /\ task[1].foundBy # <<>>

\* C17: when a call that was cancelled at an await while it held a session,
\* or in which a navigation raised, is over, every session that
\* get_playwright_page returned to it is closed.
C17_AbandonedCallReleases ==
    \A t \in TaskIds :
        (Done(t) /\ task[t].excs \cap {"cancelled", "navigation"} # {}) =>
            \A i \in DOMAIN sessions :
                sessions[i].page # "none" => sessions[i].browser = "closed"

\* C18: at every point of a call at most one browser that the call launched
\* is open; in a search, when an attempt is about to acquire its session,
\* the browser of the attempt before it is closed, whether that attempt
\* ended by a redirect, by an exception or without results.
C18_AtMostOneOpenBrowser ==
    /\ Cardinality(OpenBrowsers) <= 1
    /\ \A t \in TaskIds :
          (task[t].op = "search" /\ task[t].pc = "acquire") => OpenBrowsers = {}

\* C19: when every await of a call completes or raises, the call returns:
\* the retry loop of the search and the iteration over the tiers and their
\* identifiers come to an end.
C19_EveryCallReturns ==
    \A t \in TaskIds : (task[t].op # "idle") ~> Done(t)

\* C19, reached: a call of get_final_vcloud_download_link has returned after
\* all twelve identifiers, some of which raised.
C19_Witness ==
    /\ Done(1) /\ task[1].op = "final"
    /\ Len(task[1].tried) = 12
    /\ "identifier" \in task[1].excs

\* C20: a click on the matched element in which the browser does not fail
\* is followed by the wait on a page that is open: the trigger page itself
\* when the click opened no page, the new page when it opened one; and
\* that wait, if the browser does not fail, by the extraction.
C20_ExtractionFollowsClick ==
    [][\A t \in TaskIds :
         LET tk == task[t]
             el == dom.elems[tk.elem]
         IN  (tk.op = "final" /\ "fault" \notin task'[t].excs) =>
               /\ (tk.pc = "click" /\ task'[t].pc # "click") =>
                     /\ task'[t].pc = "settle"
                     /\ el.click \in {"same", "none"} =>
                           /\ task'[t].focus.on = "page"
                           /\ sessions'[tk.browser].page = "open"
                     /\ el.click = "popup" => task'[t].focus.on = "new_page"
               /\ (tk.pc = "settle" /\ task'[t].pc # "settle") =>
                     task'[t].pc = "extract"
      ]_vars

\* C21: the identifiers are tried in the order of server_priority without
\* a gap, whatever exceptions their attempts raise; a call that navigated
\* and found no link has tried all twelve, the ones after a failed attempt
\* included.
C21_IdentifierFailureContinues ==
    \A t \in TaskIds :
        LET tk == task[t] IN
        tk.op = "final" =>
            /\ Len(tk.tried) <= Len(AllIdentifiers)
            /\ tk.tried = SubSeq(AllIdentifiers, 1, Len(tk.tried))
            /\ (Done(t) /\ tk.excs \cap {"acquire", "navigation", "cancelled"} = {}
                   /\ tk.foundBy = <<>>) => tk.tried = AllIdentifiers

\* C21, reached: the browser failed in the attempt of an identifier, and an
\* identifier of the third tier, tried later, yielded the link returned.
C21_Witness ==
    /\ Done(1) /\ task[1].op = "final"
    /\ "fault" \in task[1].excs
    /\ task[1].foundBy # <<>> /\ task[1].foundBy[1] = 3
    /\ task[1].ret = task[1].foundBy[3]

\* C22: a call of get_final_vcloud_download_link whose navigation failed
\* returns None, for a placeholder site as for any other, has tried no
\* identifier, and has closed the browser it launched.
C22_NavigationFailureGivesNone ==
    \A t \in TaskIds :
        LET tk == task[t] IN
        (Done(t) /\ tk.op = "final" /\ "navigation" \in tk.excs) =>
            /\ tk.ret = <<>> /\ ~tk.raised
            /\ tk.tried = <<>> /\ tk.foundBy = <<>>
            /\ tk.browser # 0
            /\ sessions[tk.browser].browser = "closed"
            /\ sessions[tk.browser].context = "closed"

\* C22, reached: the navigation failed for a placeholder site, and the call
\* returned None with its browser closed.
C22_Witness ==
    /\ Done(1) /\ task[1].op = "final" /\ IsDummySite(task[1].site)
    /\ "navigation" \in task[1].excs
    /\ task[1].ret = <<>> /\ task[1].tried = <<>>
    /\ sessions[task[1].browser].browser = "closed"

\* C23: the listener calls close on a new page if and only if the URL of the
\* page contains an entry of AD_DOMAINS_PATTERNS; a page it does not call
\* close on is in the state it was in; a page that was open is closed by a
\* close that succeeds; an exception of the close, as for a page that is
\* closed already, is swallowed and never leaves the listener.
C23_PopupClosedIffDenylisted ==
    \A i \in 1..Len(popup) :
        LET p == popup[i] IN
        /\ p.close_called = ContainsAny(p.url, AD_DOMAINS_PATTERNS)
        /\ ~p.close_called => p.state = p.was /\ ~p.swallowed
        /\ (p.close_called /\ ~p.swallowed) => p.was = "open" /\ p.state = "closed"
        /\ (p.close_called /\ p.was = "closed") => p.swallowed
        /\ ~p.raised

\* C23, reached: a page of a denylisted host that was closed already, whose
\* close raised and was swallowed, and a page of the site that stayed open.
C23_Witness ==
    /\ Len(popup) = 2
    /\ Contains(popup[1].url, <<"popads.net">>) /\ popup[1].was = "closed"
    /\ popup[1].close_called /\ popup[1].swallowed /\ ~popup[1].raised
    /\ popup[2].url = OtherSite \o <<"/player">> /\ popup[2].was = "open"
    /\ ~popup[2].close_called /\ popup[2].state = "open"

\* the page of attempt n of a search was scraped, or is about to be
ReachedScrape(tk, n) ==
    \/ \E i \in 1..Len(tk.scraped) : tk.scraped[i].attempt = n
    \/ tk.attempt = n /\ tk.pc = "scrape"

\* C24: in a search, an attempt whose session was discarded after the
\* search, without a scrape, had ended on another origin than site_url and
\* had a retry left, and its browser is closed; the last attempt that ended
\* on another origin goes on to the scrape, and it scrapes in the session
\* it searched in.
C24_RedirectOnlyWhileRetryRemains ==
    \A t \in TaskIds :
        LET tk == task[t] IN
        tk.op = "search" =>
            \A a \in 1..Len(tk.landed) :
                LET n == tk.landedAt[a] IN
                /\ ~ReachedScrape(tk, n) =>
                      /\ n < max_retries
                      /\ Origin(tk.landed[a]) # Origin(tk.site)
                      /\ sessions[Handle(t, n)].browser = "closed"
                /\ (n = max_retries /\ Origin(tk.landed[a]) # Origin(tk.site)) =>
                      /\ ReachedScrape(tk, n)
                      /\ tk.pc = "scrape" =>
                            /\ tk.browser = Handle(t, n)
                            /\ sessions[tk.browser].page = "open"

\* C24, reached: both attempts of a search landed on another origin, the
\* first was discarded and the second scraped the page it was on.
C24_Witness ==
    /\ Done(1) /\ task[1].op = "search"
    /\ Len(task[1].landed) = max_retries + 1
    /\ \A a \in 1..Len(task[1].landed) :
          Origin(task[1].landed[a]) # Origin(task[1].site)
    /\ Len(task[1].scraped) = 1 /\ task[1].scraped[1].attempt = max_retries

\* C25: every step of a search that leaves the submit, whether Enter was
\* pressed, the button was clicked or both failed, goes on to the wait of
\* the same attempt, and no attempt is ended by an exception there.
C25_SubmitFailureProceeds ==
    [][\A t \in TaskIds :
          (task[t].op = "search" /\ task[t].pc = "submit" /\ task'[t] # task[t]) =>
              /\ task'[t].pc = "settle"
              /\ task'[t].attempt = task[t].attempt
              /\ task'[t].failed = task[t].failed]_vars

\* C26: the values of one entry of the store belong to one query; when
\* handle_movie_name_input has stored the name of a new query, the entry of
\* the chat holds that name and nothing else; and when the link has been
\* delivered, the chat has no entry.
C26_ClearedAtQueryAndDelivery ==
    /\ \A c \in DOMAIN user_search_data :
          \A k1 \in DOMAIN user_search_data[c].data,
             k2 \in DOMAIN user_search_data[c].data :
                Serial(user_search_data[c].data[k1]) = Serial(user_search_data[c].data[k2])
    /\ update.last = "query" =>
          /\ update.chat_id \in DOMAIN user_search_data
          /\ DOMAIN user_search_data[update.chat_id].data = {"movie_name"}
          /\ Serial(user_search_data[update.chat_id].data["movie_name"]) = update.serial
    /\ update.last \in {"delivered", "apologised"} =>
          update.chat_id \notin DOMAIN user_search_data

\* C26, reached: a query has replaced the entry of an earlier query that
\* had its download options stored, and the link of the later query has
\* been delivered, after which the chat has no entry.
C26_Witness ==
    /\ update.replaced /\ update.serial = 2
    /\ update.last = "delivered"
    /\ update.chat_id \notin DOMAIN user_search_data

\* C27: after cleanup_expired_data the store holds the entries it held
\* before whose timestamp is at most DATA_EXPIRY_SECONDS older than the time
\* of the sweep, each as it was; and after a store_user_data the timestamp
\* of the entry is the time of that call.
C27_CleanupRemovesExactlyExpired ==
    /\ update.last = "cleanup" =>
          user_search_data =
              [c \in {d \in DOMAIN update.before :
                         update.at - update.before[d].timestamp <= DATA_EXPIRY_SECONDS}
                 |-> update.before[c]]
    /\ update.last \in {"query", "store"} =>
          /\ update.chat_id \in DOMAIN user_search_data
          /\ user_search_data[update.chat_id].timestamp = update.at

\* C27, reached: a sweep has removed the entry of chat 1, stored at time 0,
\* and kept the entry of chat 2, stored a second time an hour later.
C27_Witness ==
    /\ update.last = "cleanup"
    /\ 1 \in DOMAIN update.before /\ update.before[1].timestamp = 0
    /\ update.at - update.before[1].timestamp > DATA_EXPIRY_SECONDS
    /\ DOMAIN user_search_data = {2}
    /\ user_search_data[2] = update.before[2]
    /\ user_search_data[2].timestamp > 0
    /\ DOMAIN user_search_data[2].data = {"movie_name", "search_results"}

\* C28: when a call of one of the four operations has returned, every
\* driver that it started, in any of its attempts, has been stopped.
C28_DriversStoppedAtReturn ==
    \A t \in TaskIds :
        Done(t) => \A i \in DOMAIN drivers : drivers[i] = "stopped"

\* C29: a browser that get_playwright_page launched in a call that went on
\* to fail (it has no page) is closed; so when an operation whose acquire
\* failed has returned with its browser variable unassigned, no browser is
\* open.
C29_FailedAcquireLeavesNoBrowser ==
    /\ \A i \in DOMAIN sessions :
          sessions[i].page = "none" => sessions[i].browser # "open"
    /\ \A t \in TaskIds :
          (Done(t) /\ task[t].browser = 0 /\ "acquire" \in task[t].excs) =>
              OpenBrowsers = {}

\* C30: for a request it was called with, block_ads_route has called one
\* method of the route, abort or continue_, once, and nothing after it,
\* whether that call succeeded or raised; and no exception has left it.
C30_ExactlyOneOfAbortAndContinue ==
    route.outcome \in {"aborted", "continued", "unhandled"} =>
        /\ Len(route.calls) = 1
        /\ route.calls[1] \in {"abort", "continue_"}
        /\ route.calls[1] = route.called
        /\ ~route.raised
        /\ route.outcome = "aborted" => route.calls = <<"abort">>
        /\ route.outcome = "continued" => route.calls = <<"continue_">>

\* C30, reached: the abort of a script of a denylisted host raised, and the
\* handler returned without calling continue_.
C30_Witness ==
    /\ route.resource_type = "script"
    /\ ContainsAny(route.url, AD_DOMAINS_PATTERNS)
    /\ route.outcome = "unhandled"
    /\ route.calls = <<"abort">> /\ ~route.raised

\* C31: at every moment, a read of any key of an entry whose timestamp is
\* more than DATA_EXPIRY_SECONDS old returns None, whether or not the sweep
\* has run since the entry expired.
C31_ExpiredEntryReadsNone ==
    \A c \in DOMAIN user_search_data :
        now - user_search_data[c].timestamp > DATA_EXPIRY_SECONDS =>
            \A key \in DOMAIN user_search_data[c].data :
                get_user_data(user_search_data, c, key) = <<>>

\* a callback was handled for the chat and read the store: it started a
\* scrape, or it was answered that the selection is unknown, or ignored
ReadTheStore(c) ==
    update.chat_id = c /\
        (update.pc \in {"options", "final"} \/ update.last \in {"unknown", "ignored"})

C34_SameDirectMediaTest ==
    \A t \in TaskIds :
        LET tk   == task[t]
            urls == {tk.href, tk.focus.url, tk.focus.video_src,
                     tk.focus.download_href} \ {<<>>}
        IN  tk.op = "final" =>
              \A u \in urls :
                  /\ IsDirectHref(u) = IsDirectPageUrl(u)
                  /\ IsDirectHref(u) = IsDirectVideoSrc(u)
                  /\ IsDirectHref(u) = IsDirectDownloadHref(u)

==============================================================================
